---- MODULE Spec2Model ----
(***************************************************************************)
(* A model of the resource attribute model of the scribd client library   *)
(* (src/scribd/__init__.py): the two dictionaries every Resource keeps     *)
(* (_attributes, the values loaded from XML responses, and                 *)
(* _set_attributes, the values set by the application), the instance       *)
(* variables that __setattr__ / __getattr__ keep apart from them, and the  *)
(* Document operations that send requests through the document's owner.    *)
(***************************************************************************)
EXTENDS Integers, Sequences, FiniteSets, TLC

\* ------------------------------------------------------------------ bounds

\* The number of operations of one run of the application.
MaxOps == 3

\* ------------------------------------------------------------------ values

\* Python values, tagged by their type; s is the text str() gives.
S(x) == [t |-> "str", s |-> x]
I(x) == [t |-> "int", s |-> x]
Fl(x) == [t |-> "float", s |-> x]
None == [t |-> "none", s |-> ""]
True == [t |-> "bool", s |-> "True"]
False == [t |-> "bool", s |-> "False"]
\* A reference to an object of the program.
Obj(x) == [t |-> "obj", s |-> x]
\* The (content, name) tuple User.upload passes as the file field.
FileTuple(content, name) == [t |-> "tuple", s |-> name, content |-> content]

\* The result of an expression: a value, or the exception it raised.
Ok(v) == [raised |-> "", val |-> v]
Raise(e) == [raised |-> e, val |-> None]

\* ------------------------------------------------------------------ dicts

\* A Python dict is a function whose domain is its key set.
EmptyDict == [k \in {} |-> None]
DictSet(d, k, v) == [x \in DOMAIN d \cup {k} |-> IF x = k THEN v ELSE d[x]]
DictPop(d, k) == [x \in DOMAIN d \ {k} |-> d[x]]
DictUpdate(a, b) == [x \in DOMAIN a \cup DOMAIN b |-> IF x \in DOMAIN b THEN b[x] ELSE a[x]]

\* ------------------------------------------------------------------ objects

Docs == {"d1"}
Users == {"u1", "v1"}
Ents == Docs \cup Users
\* The objects of the runs that compare objects: a second Document.
EqDocs == {"d1", "d2"}
EqEnts == EqDocs \cup Users

Kind(e) ==
    IF e \in EqDocs THEN "Document"
    ELSE IF e = "v1" THEN "VirtualUser"
    ELSE "User"

\* Faulty variant: no instance variable of a subclass is told apart from the
\* resource attributes.
InstanceVars_none(e) == {}

\* The public names in _instance_vars_names: the instance variables an object
\* has when Resource.__init__ runs (Document sets owner, VirtualUser sets
\* my_user_id, before calling it).
InstanceVars(e) ==
    IF Kind(e) = "Document" THEN {"owner"}
    ELSE IF Kind(e) = "VirtualUser" THEN {"my_user_id"}
    ELSE {}

\* The attribute names the application reads and writes on an object.
AttrNames(e) ==
    IF Kind(e) = "Document" THEN {"title", "doc_id", "session_key", "id", "owner"}
    ELSE {"user_id", "session_key", "my_user_id"}

\* Values the application assigns to attributes.
Vals == {I("7"), None}

VARIABLES
    attributes,      \* attributes[e]: e._attributes, the values loaded from XML
    set_attributes,  \* set_attributes[e]: e._set_attributes, the values set externally
    owner,           \* owner[d]: the instance variable owner of a Document
    my_user_id,      \* my_user_id[u]: the instance variable my_user_id of a VirtualUser
    op,              \* the last operation of the application and its outcome
    reqs,            \* the requests the last operation handed to send_request
    pre,             \* the objects, and the operation before, as the last operation found them
    nops,            \* the number of operations so far
    call,            \* the call of send_request in progress: its locals and its outcome
    gen              \* the generator User.xall returned: its locals and what it yielded

vars == <<attributes, set_attributes, owner, my_user_id, op, reqs, pre, nops, call, gen>>

\* No call of send_request and no generator is followed.
NoCall == [pc |-> "none"]
NoGen == [pc |-> "none"]

\* The objects of the program.
Core ==
    [attributes |-> attributes, set_attributes |-> set_attributes,
     owner |-> owner, my_user_id |-> my_user_id]

\* ------------------------------------------------------------------ XML

\* A subelement of a response, as xmlparse.Element gives it: its tag name,
\* its text (null = TRUE is the text None of an element that has no text
\* node or has subelements) and its "type" attribute ("" when it has none).
El(name, text, type) == [name |-> name, null |-> FALSE, text |-> text, type |-> type]
NullEl(name) == [name |-> name, null |-> TRUE, text |-> "", type |-> ""]

\* Texts int() and float() accept, and what float() makes of them.
IsNumber(text) == text \in {"7"}
FloatText(text) == IF text = "7" THEN "7.0" ELSE text

\* The conversion of an element's text by its declared type; a ValueError
\* of int() or float() leaves the text as it is.
Coerce(el) ==
    IF el.null THEN None
    ELSE IF el.type = "integer" THEN (IF IsNumber(el.text) THEN I(el.text) ELSE S(el.text))
    ELSE IF el.type = "float" THEN (IF IsNumber(el.text) THEN Fl(FloatText(el.text)) ELSE S(el.text))
    ELSE S(el.text)

\* The responses of the HOST the model draws from: the subelements of rsp.
Trees == {
    << El("doc_id", "7", "integer"), El("title", "a", "") >>,
    << El("doc_id", "a", ""), NullEl("title") >>,
    << El("title", "7", "float"), El("title", "a", "integer"), El("id", "7", "") >> }

\* The response of user.login that made u1.
LoginXml == << El("user_id", "7", "integer"), El("session_key", "a", "") >>

\* The tag names and the named children of a response.
TagNames(xml) == {xml[i].name : i \in 1..Len(xml)}

\* Faulty variant: the load forgets every externally set value.
LoadElement_clearsAll(attrs, setattrs, el) ==
    [a |-> DictSet(attrs, el.name, Coerce(el)), p |-> EmptyDict]

\* Faulty variant: a name that is loaded already keeps its old value.
LoadElement_keepsFirst(attrs, setattrs, el) ==
    [a |-> IF el.name \in DOMAIN attrs THEN attrs ELSE DictSet(attrs, el.name, Coerce(el)),
     p |-> DictPop(setattrs, el.name)]

\* Faulty variant: a subelement whose text is None is passed over.
LoadElement_skipsNull(attrs, setattrs, el) ==
    IF el.null THEN [a |-> attrs, p |-> setattrs]
    ELSE [a |-> DictSet(attrs, el.name, Coerce(el)), p |-> DictPop(setattrs, el.name)]

\* One turn of the loop of Resource._load_attributes: the subelement
\* overwrites the loaded value of its name and drops the externally set one.
LoadElement(attrs, setattrs, el) ==
    [a |-> DictSet(attrs, el.name, Coerce(el)), p |-> DictPop(setattrs, el.name)]

\* Resource._load_attributes: the subelements in document order.
RECURSIVE LoadAttributes(_, _, _)
LoadAttributes(attrs, setattrs, xml) ==
    IF xml = << >> THEN [a |-> attrs, p |-> setattrs]
    ELSE LoadAttributes(LoadElement(attrs, setattrs, Head(xml)).a,
                        LoadElement(attrs, setattrs, Head(xml)).p,
                        Tail(xml))

\* ------------------------------------------------------------------ attribute access

\* The lookup of Resource.__getattr__ past the name id, on the objects c:
\* the externally set value, then the loaded one, then AttributeError.
LookupIn(c, e, name) ==
    IF name \in DOMAIN c.set_attributes[e] THEN Ok(c.set_attributes[e][name])
    ELSE IF name \in DOMAIN c.attributes[e] THEN Ok(c.attributes[e][name])
    ELSE Raise("AttributeError")

\* Faulty variant: the id of a Document is its loaded doc_id even when
\* another one has been set.
GetIdIn_loadedFirst(c, e) ==
    IF Kind(e) = "Document"
    THEN (IF "doc_id" \in DOMAIN c.attributes[e] THEN Ok(c.attributes[e]["doc_id"])
          ELSE LookupIn(c, e, "doc_id"))
    ELSE IF Kind(e) = "VirtualUser" THEN Ok(c.my_user_id[e])
    ELSE IF LookupIn(c, e, "user_id").raised = "" THEN LookupIn(c, e, "user_id")
    ELSE Ok(S("api_user"))

\* _get_id of Document (self.doc_id), User (getattr(self, 'user_id',
\* 'api_user')) and VirtualUser (self.my_user_id).
GetIdIn(c, e) ==
    IF Kind(e) = "Document" THEN LookupIn(c, e, "doc_id")
    ELSE IF Kind(e) = "VirtualUser" THEN Ok(c.my_user_id[e])
    ELSE IF LookupIn(c, e, "user_id").raised = "" THEN LookupIn(c, e, "user_id")
    ELSE Ok(S("api_user"))

\* The value of an instance variable.
SlotIn(c, e, name) ==
    IF name = "owner" THEN Obj(c.owner[e]) ELSE c.my_user_id[e]

\* obj.name: an instance variable is found in the object's __dict__;
\* any other name goes to Resource.__getattr__.
GetAttrIn(c, e, name) ==
    IF name \in InstanceVars(e) THEN Ok(SlotIn(c, e, name))
    ELSE IF name = "id" THEN GetIdIn(c, e)
    ELSE LookupIn(c, e, name)

\* The same on the objects as they are now.
GetId(e) == GetIdIn(Core, e)
GetAttr(e, name) == GetAttrIn(Core, e, name)

\* Resource.get_attributes.
GetAttributes(e) == DictUpdate(attributes[e], set_attributes[e])

\* getattr(obj, name, default).
GetAttrDefault(e, name, default) ==
    IF GetAttr(e, name).raised = "" THEN GetAttr(e, name).val ELSE default

\* ------------------------------------------------------------------ comparison

\* The number a numeric text stands for.
Num(v) == IF v.s \in {"7", "7.0"} THEN 7 ELSE 0

\* a == b of two Python values: numbers compare by value whatever their
\* type, every other value with a value of its own type.
PyEq(a, b) ==
    IF a.t \in {"int", "float"} /\ b.t \in {"int", "float"} THEN Num(a) = Num(b)
    ELSE a = b

\* hash(v): numbers that are equal hash alike.
PyHash(v) ==
    IF v.t \in {"int", "float"} THEN <<"number", Num(v)>> ELSE <<v.t, v.s>>

\* Faulty variant: object.__eq__, which tells objects apart.
ResourceEq_byObject(c, a, b) == Ok(IF a = b THEN True ELSE False)

\* Resource.__eq__(a, b) for two Resource objects: self.id == other.id.
ResourceEq(c, a, b) ==
    IF GetAttrIn(c, a, "id").raised # "" THEN Raise(GetAttrIn(c, a, "id").raised)
    ELSE IF GetAttrIn(c, b, "id").raised # "" THEN Raise(GetAttrIn(c, b, "id").raised)
    ELSE Ok(IF PyEq(GetAttrIn(c, a, "id").val, GetAttrIn(c, b, "id").val) THEN True ELSE False)

\* Resource.__hash__(a): hash(self.id).
ResourceHash(c, a) ==
    IF GetAttrIn(c, a, "id").raised # "" THEN Raise(GetAttrIn(c, a, "id").raised)
    ELSE [raised |-> "", val |-> PyHash(GetAttrIn(c, a, "id").val)]

\* ------------------------------------------------------------------ requests

\* The API key config() has set.
ApiKey == "K"

\* What the HOST, or the way to it, does with one request: an rsp envelope
\* with stat ok, or one of the errors send_request raises.
Errors == {"NotReadyError", "MalformedResponseError", "ResponseError"}
Outcomes == [kind : {"ok"}, xml : Trees] \cup [kind : Errors, xml : {<< >>}]

\* The outcomes of a request whose response the caller does not read.
Acks == {out \in Outcomes : out.xml = << >> \/ out.xml = CHOOSE t \in Trees : TRUE}

\* Faulty variant: a field that is None is sent as well.
Normalize_keepsNone(fields) ==
    [k \in DOMAIN fields |->
        IF fields[k].t = "tuple" THEN fields[k] ELSE S(fields[k].s)]

\* The fields send_request transmits: a None value is not sent, a tuple
\* keeps its content, every other value is sent as str() of it.
Normalize(fields) ==
    [k \in {x \in DOMAIN fields : fields[x] # None} |->
        IF fields[k].t = "tuple" THEN fields[k] ELSE S(fields[k].s)]

\* encode_multipart_formdata takes a str or an object with read() and name;
\* the tuple of a file field is neither, so it raises TypeError.
Encodable(wire) == \A k \in DOMAIN wire : wire[k].t = "str"

\* send_request(method, **fields) with the outcome out of the transmission.
\* A TypeError of the transport is an Exception: the request is repeated for
\* 10 seconds and then NotReadyError is raised.
SendRequest(method, fields, out) ==
    LET wire == Normalize(DictSet(DictSet(fields, "method", S(method)), "api_key", S(ApiKey)))
        req == [method |-> method, fields |-> wire]
    IN  IF ~Encodable(wire) THEN [raised |-> "NotReadyError", xml |-> << >>, req |-> req]
        ELSE IF out.kind = "ok" THEN [raised |-> "", xml |-> out.xml, req |-> req]
        ELSE [raised |-> out.kind, xml |-> << >>, req |-> req]

\* Faulty variant: fields the caller passed are left as they are.
UserSendRequest_callerWins(u, method, fields, out) ==
    LET f1 == IF Kind(u) = "VirtualUser" /\ "my_user_id" \notin DOMAIN fields
              THEN DictSet(fields, "my_user_id", my_user_id[u]) ELSE fields
        f2 == IF "session_key" \in DOMAIN f1 THEN f1
              ELSE DictSet(f1, "session_key", GetAttrDefault(u, "session_key", None))
    IN  SendRequest(method, f2, out)

\* User._send_request and VirtualUser._send_request: the session key of
\* the user (None when it has none) and the name of a virtual user are
\* added to the fields.
UserSendRequest(u, method, fields, out) ==
    LET f1 == IF Kind(u) = "VirtualUser" THEN DictSet(fields, "my_user_id", my_user_id[u]) ELSE fields
        f2 == DictSet(f1, "session_key", GetAttrDefault(u, "session_key", None))
    IN  SendRequest(method, f2, out)

\* Document._send_request: through the owner.
DocSendRequest(d, method, fields, out) == UserSendRequest(owner[d], method, fields, out)

\* Keyword names a call cannot be given twice: passing **fields that holds
\* one of them next to the named arguments is a TypeError of the call.
KwClash(fields, named) == DOMAIN fields \cap named # {}

\* ------------------------------------------------------------------ operations

OpRec(name, e, arg, val, ret, raised, xml) ==
    [name |-> name, ent |-> e, arg |-> arg, val |-> val, ret |-> ret,
     raised |-> raised, xml |-> xml]

\* The application goes on until an exception ends it: none of its
\* operations is in a try block.
Running ==
    /\ nops < MaxOps
    /\ op.raised = ""

\* Values the application assigns to the attribute name of e.
SetVals(e, name) ==
    IF name = "owner" /\ name \in InstanceVars(e) THEN {Obj(u) : u \in Users} ELSE Vals

\* The operation op of the application, on the objects as they are now.
Step(o, sent) ==
    /\ op' = o
    /\ reqs' = sent
    /\ pre' = [core |-> Core, op |-> op]
    /\ nops' = nops + 1
    /\ UNCHANGED <<call, gen>>

\* Faulty variant: the value is written into _attributes.
SetResourceAttr_writesLoaded(attrs, setattrs, name, v) ==
    [a |-> DictSet(attrs, name, v), p |-> setattrs]

\* Line 204 of Resource.__setattr__: a resource attribute is put into
\* _set_attributes and _attributes is left alone.
SetResourceAttr(attrs, setattrs, name, v) ==
    [a |-> attrs, p |-> DictSet(setattrs, name, v)]

\* Resource.__setattr__: an instance variable is set on the object, any
\* other name is a resource attribute.
SetAttr(e, name, v) ==
    /\ Running
    /\ IF name \in InstanceVars(e)
       THEN /\ owner' = IF name = "owner" THEN [owner EXCEPT ![e] = v.s] ELSE owner
            /\ my_user_id' = IF name = "my_user_id" THEN [my_user_id EXCEPT ![e] = v] ELSE my_user_id
            /\ UNCHANGED <<attributes, set_attributes>>
       ELSE /\ attributes' = [attributes EXCEPT ![e] = SetResourceAttr(attributes[e], set_attributes[e], name, v).a]
            /\ set_attributes' = [set_attributes EXCEPT ![e] = SetResourceAttr(attributes[e], set_attributes[e], name, v).p]
            /\ UNCHANGED <<owner, my_user_id>>
    /\ Step(OpRec("set", e, name, v, None, "", << >>), << >>)

\* An operation that raised before it changed anything.
Raised(name, e, exc, sent) ==
    /\ UNCHANGED <<attributes, set_attributes, owner, my_user_id>>
    /\ Step(OpRec(name, e, "", None, None, exc, << >>), sent)

\* Document.load.
Load(d, out) ==
    /\ Running
    /\ IF GetAttr(d, "doc_id").raised # ""
       THEN Raised("load", d, GetAttr(d, "doc_id").raised, << >>)
       ELSE LET r == DocSendRequest(d, "docs.getSettings",
                                    DictSet(EmptyDict, "doc_id", GetAttr(d, "doc_id").val), out)
                l == LoadAttributes(attributes[d], set_attributes[d], r.xml)
            IN  IF r.raised # ""
                THEN Raised("load", d, r.raised, << r.req >>)
                ELSE /\ attributes' = [attributes EXCEPT ![d] = l.a]
                     /\ set_attributes' = [set_attributes EXCEPT ![d] = l.p]
                     /\ UNCHANGED <<owner, my_user_id>>
                     /\ Step(OpRec("load", d, "", None, None, "", r.xml), << r.req >>)

\* Faulty variant: _set_attributes is not cleared.
SaveMerge_keepsPending(attrs, setattrs) ==
    [a |-> DictUpdate(attrs, setattrs), p |-> setattrs]

\* Lines 665-666 of Document.save: the externally set values become
\* loaded ones and _set_attributes is cleared.
SaveMerge(attrs, setattrs) ==
    [a |-> DictUpdate(attrs, setattrs), p |-> EmptyDict]

\* Faulty variant: the externally set values are not passed on.
SaveFields_onlyIds(setattrs, doc_id) == DictSet(EmptyDict, "doc_ids", doc_id)

\* Lines 663-664 of Document.save: the keyword arguments of the request.
SaveFields(setattrs, doc_id) == DictSet(setattrs, "doc_ids", doc_id)

\* Faulty variant: the values are merged before the request is sent, so a
\* failed request leaves them merged.
SaveFailure_merged(d, r) ==
    /\ attributes' = [attributes EXCEPT ![d] = SaveMerge(attributes[d], set_attributes[d]).a]
    /\ set_attributes' = [set_attributes EXCEPT ![d] = SaveMerge(attributes[d], set_attributes[d]).p]
    /\ UNCHANGED <<owner, my_user_id>>
    /\ Step(OpRec("save", d, "", None, None, r.raised, << >>), << r.req >>)

\* Line 663 of Document.save: an exception of the request leaves save
\* before lines 665-666.
SaveFailure(d, r) == Raised("save", d, r.raised, << r.req >>)

\* Document.save.
Save(d, out) ==
    /\ Running
    /\ IF set_attributes[d] = EmptyDict
       THEN /\ UNCHANGED <<attributes, set_attributes, owner, my_user_id>>
            /\ Step(OpRec("save", d, "", None, False, "", << >>), << >>)
       ELSE IF GetAttr(d, "doc_id").raised # ""
       THEN Raised("save", d, GetAttr(d, "doc_id").raised, << >>)
       ELSE IF KwClash(set_attributes[d], {"doc_ids", "method", "self"})
       THEN Raised("save", d, "TypeError", << >>)
       ELSE LET r == DocSendRequest(d, "docs.changeSettings",
                                    SaveFields(set_attributes[d], GetAttr(d, "doc_id").val), out)
                m == SaveMerge(attributes[d], set_attributes[d])
            IN  IF r.raised # ""
                THEN SaveFailure(d, r)
                ELSE /\ attributes' = [attributes EXCEPT ![d] = m.a]
                     /\ set_attributes' = [set_attributes EXCEPT ![d] = m.p]
                     /\ UNCHANGED <<owner, my_user_id>>
                     /\ Step(OpRec("save", d, "", None, True, "", << >>), << r.req >>)

\* ------------------------------------------------------------------ uploads

\* The files and URLs the application uploads.
Paths == {"dir/report.PDF"}
Urls == {"http://host/paper.TXT"}

\* os.path.basename(name).
Basename(name) == IF name = "dir/report.PDF" THEN "report.PDF" ELSE name

\* os.path.splitext(name)[-1].
SplitExt(name) ==
    IF name = "report.PDF" THEN ".PDF"
    ELSE IF name = "http://host/paper.TXT" THEN ".TXT"
    ELSE ""

\* ext.lstrip('.').lower().
LStripLower(ext) ==
    IF ext = ".PDF" THEN "pdf"
    ELSE IF ext = ".TXT" THEN "txt"
    ELSE ext

\* User.upload up to the response: the file field is the tuple (content, name).
UploadCall(u, path, kwargs, out) ==
    LET name == Basename(path)
        kw == IF "doc_type" \in DOMAIN kwargs THEN kwargs
              ELSE DictSet(kwargs, "doc_type", S(SplitExt(name)))
        kw2 == DictSet(kw, "doc_type", S(LStripLower(kw["doc_type"].s)))
    IN  UserSendRequest(u, "docs.upload", DictSet(kw2, "file", FileTuple("content", name)), out)

\* User.upload_from_url up to the response.
UploadFromUrlCall(u, url, kwargs, out) ==
    LET kw == IF "doc_type" \in DOMAIN kwargs THEN kwargs
              ELSE DictSet(kwargs, "doc_type", S(SplitExt(url)))
        kw2 == DictSet(kw, "doc_type", S(LStripLower(kw["doc_type"].s)))
    IN  UserSendRequest(u, "docs.uploadFromUrl", DictSet(kw2, "url", S(url)), out)

\* Resource.__init__(xml): _attributes of an object made from a response.
InitAttributes(xml) == LoadAttributes(EmptyDict, EmptyDict, xml).a

\* User.upload: the new Document is returned to the application.
Upload(u, path, out) ==
    /\ Running
    /\ LET r == UploadCall(u, path, EmptyDict, out)
       IN  IF r.raised # ""
           THEN Raised("upload", u, r.raised, << r.req >>)
           ELSE /\ UNCHANGED <<attributes, set_attributes, owner, my_user_id>>
                /\ Step(OpRec("upload", u, "", None, Obj("new"), "", r.xml), << r.req >>)

\* Lines 683 and 698: the loaded attributes of the uploaded revision are
\* merged into the document's.
ReplaceMerge(attrs, docattrs) == DictUpdate(attrs, docattrs)

\* Document.replace.
Replace(d, path, out) ==
    /\ Running
    /\ IF GetAttr(d, "doc_id").raised # ""
       THEN Raised("replace", d, GetAttr(d, "doc_id").raised, << >>)
       ELSE LET r == UploadCall(owner[d], path, DictSet(EmptyDict, "rev_id", GetAttr(d, "doc_id").val), out)
            IN  IF r.raised # ""
                THEN Raised("replace", d, r.raised, << r.req >>)
                ELSE /\ attributes' = [attributes EXCEPT ![d] = ReplaceMerge(@, InitAttributes(r.xml))]
                     /\ UNCHANGED <<set_attributes, owner, my_user_id>>
                     /\ Step(OpRec("replace", d, "", None, None, "", r.xml), << r.req >>)

\* Document.replace_from_url.
ReplaceFromUrl(d, url, out) ==
    /\ Running
    /\ IF GetAttr(d, "doc_id").raised # ""
       THEN Raised("replace_from_url", d, GetAttr(d, "doc_id").raised, << >>)
       ELSE LET r == UploadFromUrlCall(owner[d], url, DictSet(EmptyDict, "rev_id", GetAttr(d, "doc_id").val), out)
            IN  IF r.raised # ""
                THEN Raised("replace_from_url", d, r.raised, << r.req >>)
                ELSE /\ attributes' = [attributes EXCEPT ![d] = ReplaceMerge(@, InitAttributes(r.xml))]
                     /\ UNCHANGED <<set_attributes, owner, my_user_id>>
                     /\ Step(OpRec("replace_from_url", d, "", None, None, "", r.xml), << r.req >>)

\* ------------------------------------------------------------------ specification

\* u1 = login(...); v1 = VirtualUser('v1'); d1 is a
\* Document made from a response, with one of the users as its owner.
Init ==
    /\ \E t \in Trees :
         attributes = [e \in Ents |->
             IF e \in Docs THEN InitAttributes(t)
             ELSE IF e = "u1" THEN InitAttributes(LoginXml)
             ELSE EmptyDict]
    /\ set_attributes = [e \in Ents |-> EmptyDict]
    /\ owner \in [Docs -> Users]
    /\ my_user_id = [u \in {"v1"} |-> S("v1")]
    /\ op = OpRec("init", "", "", None, None, "", << >>)
    /\ reqs = << >>
    /\ pre = [core |-> Core, op |-> op]
    /\ nops = 0
    /\ call = NoCall
    /\ gen = NoGen

Next ==
    \/ \E e \in Ents : \E name \in AttrNames(e) : \E v \in SetVals(e, name) : SetAttr(e, name, v)
    \/ \E d \in Docs, out \in Outcomes : Load(d, out)
    \/ \E d \in Docs, out \in Acks : Save(d, out)
    \/ \E d \in Docs, path \in Paths, out \in Acks : Replace(d, path, out)
    \/ \E d \in Docs, url \in Urls, out \in Outcomes : ReplaceFromUrl(d, url, out)
    \/ \E u \in Users, path \in Paths, out \in Acks : Upload(u, path, out)

Spec == Init /\ [][Next]_vars

\* ------------------------------------------------------------------ comparing objects

\* The ids the application assigns.
EqVals == {I("7"), Fl("7.0"), S("a")}

\* a == b.
Compare(a, b) ==
    /\ Running
    /\ UNCHANGED <<attributes, set_attributes, owner, my_user_id>>
    /\ Step(OpRec("eq", a, b, None, ResourceEq(Core, a, b).val, ResourceEq(Core, a, b).raised, << >>), << >>)

\* hash(a).
HashOf(a) ==
    /\ Running
    /\ UNCHANGED <<attributes, set_attributes, owner, my_user_id>>
    /\ Step(OpRec("hash", a, "", None, ResourceHash(Core, a).val, ResourceHash(Core, a).raised, << >>), << >>)

\* Two Documents made from responses, the user u1 that logged in and the
\* virtual user v1.
InitEq ==
    /\ \E t1 \in Trees, t2 \in Trees :
         attributes = [e \in EqEnts |->
             IF e = "d1" THEN InitAttributes(t1)
             ELSE IF e = "d2" THEN InitAttributes(t2)
             ELSE IF e = "u1" THEN InitAttributes(LoginXml)
             ELSE EmptyDict]
    /\ set_attributes = [e \in EqEnts |-> EmptyDict]
    /\ owner = [d \in EqDocs |-> "u1"]
    /\ my_user_id = [u \in {"v1"} |-> S("v1")]
    /\ op = OpRec("init", "", "", None, None, "", << >>)
    /\ reqs = << >>
    /\ pre = [core |-> Core, op |-> op]
    /\ nops = 0
    /\ call = NoCall
    /\ gen = NoGen

NextEq ==
    \/ \E e \in EqEnts, v \in EqVals :
         SetAttr(e, IF Kind(e) = "Document" THEN "doc_id"
                    ELSE IF Kind(e) = "VirtualUser" THEN "my_user_id" ELSE "user_id", v)
    \/ \E a \in EqEnts, b \in EqEnts : Compare(a, b)
    \/ \E a \in EqEnts : HashOf(a)

SpecEq == InitEq /\ [][NextEq]_vars

\* ------------------------------------------------------------------ send_request, step by step

\* The number of turns of the retry loop that are followed.
MaxAttempts == 3

\* The seconds a request is repeated for (lines 797 and 818).
RetrySeconds == 10

\* What config() is called with, and what send_request is called with.
Keys == {"", ApiKey}
Secrets == {"", "S", "T"}
Methods == {"", "docs.getList"}
CallFields == {
    EmptyDict,
    [doc_id |-> I("7"), title |-> None],
    [doc_id |-> I("7"), file |-> FileTuple("c1", "n")],
    [doc_id |-> I("7"), file |-> FileTuple("c2", "n")] }

\* What time() returns when the call begins, and the seconds one attempt takes.
Starts == {0, 5}
Delays == {0, 3, 7, 11}

\* The body of a response: whether minidom parses it, the name of its root
\* element, the stat attribute of the root and its error subelement.
NoError == [present |-> FALSE, code |-> "", message |-> ""]
ErrorEl(code, message) == [present |-> TRUE, code |-> code, message |-> message]
Body(parses, root, stat, error) ==
    [parses |-> parses, root |-> root, stat |-> stat, error |-> error]
Garbage == Body(FALSE, "", "", NoError)

\* What post_multipart does: it raises, or returns a response with a Status
\* header, a Content-Type header ("absent" when there is none) and a body.
Response(status, ctype, body) ==
    [exception |-> FALSE, status |-> status, ctype |-> ctype, body |-> body]
TransportException == [exception |-> TRUE, status |-> "absent", ctype |-> "absent", body |-> Garbage]
Responses == {
    TransportException,
    Response("500 Internal Server Error", "text/html", Garbage),
    Response("404 Not Found", "text/html", Garbage),
    Response("404 Not Found", "application/xml", Body(TRUE, "rsp", "ok", NoError)),
    Response("200 OK", "text/html", Body(TRUE, "rsp", "ok", NoError)),
    Response("absent", "absent", Body(TRUE, "rsp", "ok", NoError)),
    Response("200 OK", "application/xml", Garbage),
    Response("absent", "application/xml; charset=utf-8", Body(TRUE, "html", "", NoError)),
    Response("200 OK", "application/xml; charset=utf-8", Body(TRUE, "rsp", "ok", NoError)),
    Response("absent", "application/xml", Body(TRUE, "rsp", "fail", ErrorEl("401", "Unauthorized"))),
    Response("200 OK", "application/xml", Body(TRUE, "rsp", "fail", NoError)) }

\* resp.getheader('Status', '200').split()[0].
StatusOf(header) ==
    IF header = "absent" \/ header = "200 OK" THEN "200"
    ELSE IF header = "500 Internal Server Error" THEN "500"
    ELSE "404"

\* resp.getheader('Content-Type', 'text/plain').split(';')[0].
ContentTypeOf(header) ==
    IF header = "absent" THEN "text/plain"
    ELSE IF header = "application/xml; charset=utf-8" THEN "application/xml"
    ELSE header

\* Faulty variant: only the API key is looked at.
Configured_keyOnly(key, secret) == key # ""

\* Line 755: not api_key or not api_secret.
Configured(key, secret) == key # "" /\ secret # ""

\* Faulty variant: a failed attempt is never repeated.
RetryAllowed_never(start, now) == FALSE

\* Lines 797 and 818: time() - start_time < 10.
RetryAllowed(start, now) == now - start < RetrySeconds

\* Faulty variant: every status but 200 is tried again.
Attempt_retriesEveryStatus(resp, encodable, start, now) ==
    IF resp.exception \/ ~encodable \/ StatusOf(resp.status) # "200"
    THEN (IF RetryAllowed(start, now) THEN [next |-> "continue", raised |-> ""]
          ELSE [next |-> "raise", raised |-> "NotReadyError"])
    ELSE IF ContentTypeOf(resp.ctype) = "application/xml" /\ resp.body.parses /\ resp.body.root = "rsp"
    THEN [next |-> "break", raised |-> ""]
    ELSE [next |-> "raise", raised |-> "MalformedResponseError"]

\* One turn of the loop of lines 793-823, the time being now when the
\* attempt has ended: go on with the loop, raise, or leave the loop with
\* the parsed response.
Attempt(resp, encodable, start, now) ==
    IF resp.exception \/ ~encodable
    THEN (IF RetryAllowed(start, now) THEN [next |-> "continue", raised |-> ""]
          ELSE [next |-> "raise", raised |-> "NotReadyError"])
    ELSE IF StatusOf(resp.status) = "200"
    THEN (IF ContentTypeOf(resp.ctype) = "application/xml"
          THEN (IF resp.body.parses /\ resp.body.root = "rsp"
                THEN [next |-> "break", raised |-> ""]
                ELSE [next |-> "raise", raised |-> "MalformedResponseError"])
          ELSE [next |-> "raise", raised |-> "MalformedResponseError"])
    ELSE IF StatusOf(resp.status) = "500"
    THEN (IF RetryAllowed(start, now) THEN [next |-> "continue", raised |-> ""]
          ELSE [next |-> "raise", raised |-> "NotReadyError"])
    ELSE [next |-> "raise", raised |-> "NotReadyError"]

\* int(err.attrs['code']) and xml.toxml().
CodeInt(code) == IF code = "401" THEN 401 ELSE 0
ToXml(body) == "<" \o body.root \o " stat=\"" \o body.stat \o "\"/>"

\* Faulty variant: a fail envelope is returned like any other.
Interpret_returnsFail(method, body) ==
    [raised |-> "", errno |-> 0, errstr |-> "", ret |-> body]

\* The texts int() accepts, of those an error element carries here.
Numeric(code) == code \in {"401"}

\* What line 827 onwards raises without returning an envelope.
Escapes(exc) == [raised |-> exc, errno |-> 0, errstr |-> "", ret |-> Garbage]

\* Lines 827-840: a fail envelope raises ResponseError(code, 'method:
\* message'), any other envelope is returned. xml.attrs['stat'],
\* err.attrs['code'] and err.attrs['message'] are dictionary lookups, a
\* KeyError for an attribute that is "absent", and int() of a code that is
\* no number is a ValueError.
Interpret(method, body) ==
    IF body.stat = "absent" THEN Escapes("KeyError")
    ELSE IF body.stat = "fail"
    THEN (IF ~body.error.present
          THEN [raised |-> "ResponseError", errno |-> -1,
                errstr |-> method \o ": " \o "unidentified error:\n" \o ToXml(body), ret |-> Garbage]
          ELSE IF body.error.code = "absent" THEN Escapes("KeyError")
          ELSE IF ~Numeric(body.error.code) THEN Escapes("ValueError")
          ELSE IF body.error.message = "absent" THEN Escapes("KeyError")
          ELSE [raised |-> "ResponseError", errno |-> CodeInt(body.error.code),
                errstr |-> method \o ": " \o body.error.message, ret |-> Garbage])
    ELSE [raised |-> "", errno |-> 0, errstr |-> "", ret |-> body]

\* The field names in the order str compares them.
KeyOrder == <<"api_key", "doc_id", "file", "method", "session_key", "title">>
Rank(k) == CHOOSE i \in 1..Len(KeyOrder) : KeyOrder[i] = k

\* The orders in which a dict may give the keys.
Orders(keys) ==
    {o \in [1..Cardinality(keys) -> keys] : \A i, j \in 1..Cardinality(keys) : o[i] = o[j] => i = j}

\* dict.items() in the order the dict gives the keys.
Items(d, order) == [i \in 1..Len(order) |-> <<order[i], d[order[i]].s>>]

\* list.sort() of (name, value) pairs, by insertion.
RECURSIVE InsertItem(_, _)
InsertItem(sorted, item) ==
    IF sorted = << >> THEN << item >>
    ELSE IF Rank(item[1]) <= Rank(Head(sorted)[1]) THEN << item >> \o sorted
    ELSE << Head(sorted) >> \o InsertItem(Tail(sorted), item)
\* Faulty variant: the items are signed in the order the dict gives them.
SortItems_unsorted(items) == items

RECURSIVE SortItems(_)
SortItems(items) ==
    IF items = << >> THEN << >> ELSE InsertItem(SortItems(Tail(items)), Head(items))

\* ''.join(k + v for k, v in items).
RECURSIVE Join(_)
Join(items) ==
    IF items = << >> THEN "" ELSE Head(items)[1] \o Head(items)[2] \o Join(Tail(items))

\* md5(text).hexdigest().
Md5(text) == "md5(" \o text \o ")"

\* Lines 783-788: the file field is dropped, the other items are sorted and
\* joined behind the secret.
Signature(secret, wire, order) ==
    Md5(secret \o Join(SortItems(Items(DictPop(wire, "file"), order))))

\* Lines 760-773: the fields of the request before it is signed.
WireFields(key, method, fields) ==
    Normalize(DictSet(DictSet(fields, "method", S(method)), "api_key", S(key)))

\* The module as it is imported: api_key = '' and api_secret = ''.
IdleCall ==
    [pc |-> "idle", api_key |-> "", api_secret |-> "", method |-> "",
     wire |-> EmptyDict, start |-> 0, now |-> 0, log |-> << >>,
     raised |-> "", errno |-> 0, errstr |-> "", ret |-> Garbage,
     key_before |-> "", secret_before |-> "", supplied |-> EmptyDict]

\* The variables no call of send_request touches.
objvars == <<attributes, set_attributes, owner, my_user_id, op, reqs, pre, nops>>

\* config(key, secret), before the call of send_request that is followed.
Config(key, secret) ==
    /\ call.pc = "idle"
    /\ call' = [call EXCEPT !.api_key = key, !.api_secret = secret]
    /\ UNCHANGED <<objvars, gen>>

\* The one call send_request(method, **fields) of a run, up to the loop: the two checks, the
\* fields, the signature and start_time.
CallSend(method, fields, order, t0) ==
    /\ call.pc = "idle"
    /\ LET wire == WireFields(call.api_key, method, fields)
           entered == [call EXCEPT !.method = method, !.wire = EmptyDict,
                                   !.start = 0, !.now = 0, !.log = << >>,
                                   !.raised = "", !.errno = 0, !.errstr = "", !.ret = Garbage,
                                   !.key_before = call.api_key, !.secret_before = call.api_secret,
                                   !.supplied = fields]
       IN  IF ~Configured(call.api_key, call.api_secret)
           THEN call' = [entered EXCEPT !.pc = "done", !.raised = "NotReadyError"]
           ELSE IF method = ""
           THEN call' = [entered EXCEPT !.pc = "done", !.raised = "ValueError"]
           ELSE /\ order \in Orders(DOMAIN wire \ {"file"})
                /\ call' = [entered EXCEPT !.pc = "post", !.start = t0, !.now = t0,
                              !.wire = DictSet(wire, "api_sig", S(Signature(call.api_secret, wire, order)))]
    /\ UNCHANGED <<objvars, gen>>

\* One turn of the loop, and what follows the loop when it is left.
Post(resp, dt) ==
    /\ call.pc = "post"
    /\ Len(call.log) < MaxAttempts
    /\ ~Encodable(call.wire) => resp = TransportException
    /\ LET now == call.now + dt
           a == Attempt(resp, Encodable(call.wire), call.start, now)
           r == Interpret(call.method, resp.body)
       IN  call' = [call EXCEPT
                !.now = now,
                !.log = Append(@, [resp |-> resp, at |-> now, req |-> call.wire]),
                !.pc = IF a.next = "continue" THEN "post" ELSE "done",
                !.raised = IF a.next = "break" THEN r.raised ELSE a.raised,
                !.errno = IF a.next = "break" THEN r.errno ELSE 0,
                !.errstr = IF a.next = "break" THEN r.errstr ELSE "",
                !.ret = IF a.next = "break" THEN r.ret ELSE Garbage]
    /\ UNCHANGED <<objvars, gen>>

\* Objects that no operation is applied to.
InitObjects ==
    /\ attributes = [e \in Ents |-> EmptyDict]
    /\ set_attributes = [e \in Ents |-> EmptyDict]
    /\ owner = [d \in Docs |-> "u1"]
    /\ my_user_id = [u \in {"v1"} |-> S("v1")]
    /\ op = OpRec("init", "", "", None, None, "", << >>)
    /\ reqs = << >>
    /\ pre = [core |-> Core, op |-> op]
    /\ nops = 0

InitSend ==
    /\ InitObjects
    /\ call = IdleCall
    /\ gen = NoGen

NextSend ==
    \/ \E key \in Keys, secret \in Secrets : Config(key, secret)
    \/ \E method \in Methods, fields \in CallFields, t0 \in Starts :
         \E order \in Orders(DOMAIN WireFields(call.api_key, method, fields) \ {"file"}) :
             CallSend(method, fields, order, t0)
    \/ \E resp \in Responses, dt \in Delays : Post(resp, dt)

SpecSend == InitSend /\ [][NextSend]_vars

\* Well-formed documents with the root rsp that are not the envelope the
\* API documents: no stat attribute, and an error element without code,
\* with a code that is no number, without message.
OddEnvelopes == {
    Response("200 OK", "application/xml", Body(TRUE, "rsp", "absent", NoError)),
    Response("200 OK", "application/xml", Body(TRUE, "rsp", "fail", ErrorEl("absent", "Unauthorized"))),
    Response("200 OK", "application/xml", Body(TRUE, "rsp", "fail", ErrorEl("abc", "Unauthorized"))),
    Response("200 OK", "application/xml", Body(TRUE, "rsp", "fail", ErrorEl("401", "absent"))) }

\* send_request against a host that answers with those as well.
NextEnvelope ==
    \/ \E key \in Keys, secret \in Secrets : Config(key, secret)
    \/ \E method \in Methods, fields \in CallFields, t0 \in Starts :
         \E order \in Orders(DOMAIN WireFields(call.api_key, method, fields) \ {"file"}) :
             CallSend(method, fields, order, t0)
    \/ \E resp \in Responses \cup OddEnvelopes, dt \in Delays : Post(resp, dt)

SpecEnvelope == InitSend /\ [][NextEnvelope]_vars

\* ------------------------------------------------------------------ the signature of two requests

\* No request is signed yet.
Unsigned == [pc |-> "unsigned"]

\* The signing of lines 783-788 for one request, the dict giving its keys
\* in the given order; the request signed before it is kept next to it.
Sign(secret, method, fields, order) ==
    /\ call.pc \in {"unsigned", "signed"}
    /\ LET wire == WireFields(ApiKey, method, fields)
       IN  /\ order \in Orders(DOMAIN wire \ {"file"})
           /\ call' = [pc |-> "signed", secret |-> secret, wire |-> wire, order |-> order,
                       sig |-> Signature(secret, wire, order),
                       prev |-> IF call.pc = "signed" THEN [call EXCEPT !.prev = Unsigned]
                                ELSE Unsigned]
    /\ UNCHANGED <<objvars, gen>>

InitSign ==
    /\ InitObjects
    /\ call = Unsigned
    /\ gen = NoGen

NextSign ==
    \E secret \in Secrets \ {""}, method \in Methods \ {""}, fields \in CallFields :
        \E order \in Orders(DOMAIN WireFields(ApiKey, method, fields) \ {"file"}) :
            Sign(secret, method, fields, order)

SpecSign == InitSign /\ [][NextSign]_vars

\* ------------------------------------------------------------------ session fields

\* The session keys and names the application assigns.
SessionVals == {S("x"), None}

\* The operations of Spec on the attributes session_key and my_user_id of
\* the users and of the document, and the requests that follow them.
NextSession ==
    \/ \E e \in Ents, name \in {"session_key", "my_user_id"}, v \in SessionVals : SetAttr(e, name, v)
    \/ \E d \in Docs, out \in Acks : Load(d, out)
    \/ \E d \in Docs, out \in Acks : Save(d, out)
    \/ \E d \in Docs, url \in Urls, out \in Acks : ReplaceFromUrl(d, url, out)
    \/ \E u \in Users, path \in Paths, out \in Acks : Upload(u, path, out)

SpecSession == Init /\ [][NextSession]_vars

\* ------------------------------------------------------------------ User.xall

\* The largest collection and the largest page_size that are followed.
MaxItems == 5
MaxPageSize == 3

\* The page_size of a call that names none (line 289).
DefaultPageSize == 100

\* The page sizes xall is called with.
PageSizes == 1..MaxPageSize \cup {DefaultPageSize}

\* kwargs.get('offset', 0) and the offset field of a request.
NoOffset == [given |-> FALSE, val |-> 0]
Offset(n) == [given |-> TRUE, val |-> n]

\* The resultset of docs.getList for a collection of n documents, numbered
\* from 1: the documents after the first offset ones, limit at most.
ServerPage(n, offset, limit) ==
    [i \in 1..(IF n - offset < limit THEN n - offset ELSE limit) |-> offset + i]

\* Faulty variant: only an empty page ends the loop.
ShortPage_empty(results, limit) == Len(results) = 0

\* Line 295: len(results) < kwargs['limit'].
ShortPage(results, limit) == Len(results) < limit

\* The generator user.xall(page_size=p) over a collection of n documents,
\* before its first next(): line 289 has set kwargs['limit'].
NewGen(n, p) ==
    [pc |-> "request", n |-> n, limit |-> p, offset |-> NoOffset, results |-> << >>,
     pos |-> 0, requests |-> << >>, pages |-> << >>, yielded |-> << >>]

\* Lines 291-292: one docs.getList request; the HOST answers with a page, or
\* the request raises and ends the generator.
GetList(ok) ==
    /\ gen.pc = "request"
    /\ LET req == [method |-> "docs.getList", limit |-> gen.limit, offset |-> gen.offset]
           page == ServerPage(gen.n, gen.offset.val, gen.limit)
       IN  gen' = IF ok
                  THEN [gen EXCEPT !.pc = "results", !.results = page, !.pos = 0,
                                   !.requests = Append(@, req), !.pages = Append(@, Len(page))]
                  ELSE [gen EXCEPT !.pc = "raised", !.requests = Append(@, req)]
    /\ UNCHANGED <<objvars, call>>

\* Lines 293-294: the next Document of the page is yielded.
Yield ==
    /\ gen.pc = "results"
    /\ gen.pos < Len(gen.results)
    /\ gen' = [gen EXCEPT !.pos = @ + 1, !.yielded = Append(@, gen.results[gen.pos + 1])]
    /\ UNCHANGED <<objvars, call>>

\* Lines 295-297: after the page, the loop ends or goes on behind it.
PageDone ==
    /\ gen.pc = "results"
    /\ gen.pos = Len(gen.results)
    /\ gen' = IF ShortPage(gen.results, gen.limit)
              THEN [gen EXCEPT !.pc = "done"]
              ELSE [gen EXCEPT !.pc = "request",
                               !.offset = Offset(gen.offset.val + Len(gen.results))]
    /\ UNCHANGED <<objvars, call>>

InitXall ==
    /\ InitObjects
    /\ call = NoCall
    /\ \E n \in 0..MaxItems, p \in PageSizes : gen = NewGen(n, p)

NextXall ==
    \/ \E ok \in BOOLEAN : GetList(ok)
    \/ Yield
    \/ PageDone

SpecXall == InitXall /\ [][NextXall]_vars

\* ------------------------------------------------------------------ find and xfind

\* The largest number of search results, and the number of docs.search
\* requests of one generator that are followed.
MaxResults == 4
MaxRequests == 3

\* The users find and xfind are called on; api_user is the User() of line 987.
FindUsers == Users \cup {"api_user"}

\* The scope, offset and page_size (or limit) arguments of a search;
\* "absent" and 0 stand for an argument that is not passed.
Scopes == {"absent", "user", "all"}
SearchOffsets == {0, 1}
SearchSizes == 0..MaxPageSize

\* Lines 920-936 and 939-956: the module-level functions call api_user and
\* set scope to 'all' when none is given.
ModuleScope(scope) == IF scope = "absent" THEN "all" ELSE scope

\* Faulty variant: the documents always belong to the user searched on.
FindOwner_alwaysSelf(self, scope) == self

\* Lines 356-358 and 394-396: owner = api_user, or self when
\* kwargs.get('scope', 'user') == 'user'.
FindOwner(self, scope) == IF scope \in {"absent", "user"} THEN self ELSE "api_user"

\* The result_set of docs.search for a collection of t results, numbered
\* from 1: the results from position start on, size at most (the HOST's
\* own page size when none is asked for), and the three attributes.
SearchPage(t, start, size) ==
    LET cap == IF size = 0 THEN MaxPageSize ELSE size
        last == IF start + cap - 1 < t THEN start + cap - 1 ELSE t
    IN  [results |-> [i \in 1..(IF last < start THEN 0 ELSE last - start + 1) |-> start + i - 1],
         firstResultPosition |-> start,
         totalResultsReturned |-> IF last < start THEN 0 ELSE last - start + 1,
         totalResultsAvailable |-> t]

\* The docs.search request of find and xfind.
SearchRequest(self, scope, start, size) ==
    [method |-> "docs.search", through |-> self, scope |-> scope,
     num_start |-> start, num_results |-> size]

\* Faulty variant: the next page starts behind the last result.
NextStart_behind(page) == page.firstResultPosition + page.totalResultsReturned

\* Lines 402-403: the start of the next page.
NextStart(page) == page.firstResultPosition + page.totalResultsReturned - 1

\* Documents made from results, with their owner.
Found(results, o) == [i \in 1..Len(results) |-> [doc |-> results[i], owner |-> o]]

\* user.find(query, scope=, offset=, limit=) or, when module is TRUE,
\* scribd.find(...): one request, and the list of Documents.
Find(self, module, scope, offset, size, t, ok) ==
    /\ gen.pc = "none"
    /\ module => self = "api_user"
    /\ LET sc == IF module THEN ModuleScope(scope) ELSE scope
           page == SearchPage(t, offset + 1, size)
       IN  gen' = [pc |-> IF ok THEN "done" ELSE "raised", kind |-> "find",
                   self |-> self, module |-> module, scope |-> scope, offset |-> offset,
                   t |-> t, size |-> size, start |-> offset + 1,
                   owner |-> FindOwner(self, sc),
                   page |-> page, pos |-> 0,
                   requests |-> << SearchRequest(self, sc, offset + 1, size) >>,
                   pages |-> IF ok THEN << page >> ELSE << >>,
                   yielded |-> IF ok THEN Found(page.results, FindOwner(self, sc)) ELSE << >>]
    /\ UNCHANGED <<objvars, call>>

\* user.xfind(...) or scribd.xfind(...) up to the loop, as the first
\* next() runs it: lines 392-396.
Xfind(self, module, scope, offset, size, t) ==
    /\ gen.pc = "none"
    /\ module => self = "api_user"
    /\ LET sc == IF module THEN ModuleScope(scope) ELSE scope
       IN  gen' = [pc |-> "request", kind |-> "xfind",
                   self |-> self, module |-> module, scope |-> scope, offset |-> offset,
                   t |-> t, size |-> size, start |-> offset + 1,
                   owner |-> FindOwner(self, sc),
                   page |-> SearchPage(0, 1, 0), pos |-> 0,
                   requests |-> << >>, pages |-> << >>, yielded |-> << >>]
    /\ UNCHANGED <<objvars, call>>

\* Lines 398-399: one docs.search request.
Search(ok) ==
    /\ gen.pc = "request"
    /\ Len(gen.requests) < MaxRequests
    /\ LET sc == IF gen.module THEN ModuleScope(gen.scope) ELSE gen.scope
           req == SearchRequest(gen.self, sc, gen.start, gen.size)
           page == SearchPage(gen.t, gen.start, gen.size)
       IN  gen' = IF ok
                  THEN [gen EXCEPT !.pc = "results", !.page = page, !.pos = 0,
                                   !.requests = Append(@, req), !.pages = Append(@, page)]
                  ELSE [gen EXCEPT !.pc = "raised", !.requests = Append(@, req)]
    /\ UNCHANGED <<objvars, call>>

\* Lines 400-401: the next Document of the page is yielded.
XfindYield ==
    /\ gen.pc = "results"
    /\ gen.pos < Len(gen.page.results)
    /\ gen' = [gen EXCEPT !.pos = @ + 1,
                          !.yielded = Append(@, [doc |-> gen.page.results[gen.pos + 1], owner |-> gen.owner])]
    /\ UNCHANGED <<objvars, call>>

\* Lines 402-405: the new num_start, and the end of the loop.
XfindPageDone ==
    /\ gen.pc = "results"
    /\ gen.pos = Len(gen.page.results)
    /\ gen' = [gen EXCEPT !.start = NextStart(gen.page),
                          !.pc = IF NextStart(gen.page) >= gen.page.totalResultsAvailable
                                 THEN "done" ELSE "request"]
    /\ UNCHANGED <<objvars, call>>

InitFind ==
    /\ InitObjects
    /\ call = NoCall
    /\ gen = NoGen

NextFind ==
    \/ \E self \in FindUsers, module \in BOOLEAN, scope \in Scopes, offset \in SearchOffsets,
          size \in SearchSizes, t \in 0..MaxResults, ok \in BOOLEAN :
         Find(self, module, scope, offset, size, t, ok)
    \/ \E self \in FindUsers, module \in BOOLEAN, scope \in Scopes, offset \in SearchOffsets,
          size \in SearchSizes, t \in 0..MaxResults :
         Xfind(self, module, scope, offset, size, t)
    \/ \E ok \in BOOLEAN : Search(ok)
    \/ XfindYield
    \/ XfindPageDone

SpecFind == InitFind /\ [][NextFind]_vars

\* ------------------------------------------------------------------ update

\* The longest sequence of documents update is called with.
MaxDocs == 2

\* The users that own documents: u1 that logged in, api_user, and u2, a
\* second User() that has not logged in.
UpdateUsers == {"u1", "u2", "api_user"}
UpdateEnts == EqDocs \cup UpdateUsers

\* The elements of the sequences passed as docs: the two Documents, and a
\* User, which is not a Document.
UpdateArgs == UNION {[1..n -> EqDocs \cup {"u1"}] : n \in 0..MaxDocs}

\* The keyword arguments of update.
UpdateFields == {
    EmptyDict,
    DictSet(EmptyDict, "title", S("b")),
    DictSet(EmptyDict, "title", None),
    DictSet(EmptyDict, "id", S("b")),
    DictSet(EmptyDict, "doc_ids", S("b")) }

\* Line 902 of update: isinstance(doc, Document).
IsDocument(x) == Kind(x) = "Document"

\* Faulty variant: no two owners differ.
OwnerNe_never(a, b) == FALSE

\* Line 906: owner != doc.owner. Resource defines __eq__ and no __ne__, so
\* != is the default comparison of Python 2: two objects differ unless
\* they are the same object.
OwnerNe(a, b) == a # b

\* Lines 900-907: the loop over docs raises ValueError at the first element
\* that is not a Document or whose owner differs from the first one's.
Invalid(c, docs) ==
    \E i \in 1..Len(docs) :
        \/ ~IsDocument(docs[i])
        \/ IsDocument(docs[1]) /\ OwnerNe(c.owner[docs[1]], c.owner[docs[i]])

\* ','.join(strs).
RECURSIVE JoinStr(_)
JoinStr(strs) ==
    IF Len(strs) = 0 THEN ""
    ELSE IF Len(strs) = 1 THEN strs[1]
    ELSE strs[1] \o "," \o JoinStr(Tail(strs))

\* Line 910: ','.join(doc.id for doc in docs) raises what doc.id raises, and
\* TypeError for an id that is not a string.
JoinIds(c, docs) ==
    LET ids == [i \in 1..Len(docs) |-> GetAttrIn(c, docs[i], "id")]
    IN  IF \E i \in 1..Len(docs) : ids[i].raised # ""
        THEN Raise(ids[CHOOSE i \in 1..Len(docs) :
                         ids[i].raised # "" /\ \A j \in 1..(i - 1) : ids[j].raised = ""].raised)
        ELSE IF \E i \in 1..Len(docs) : ids[i].val.t # "str" THEN Raise("TypeError")
        ELSE Ok(S(JoinStr([i \in 1..Len(docs) |-> ids[i].val.s])))

\* Lines 915-917: setattr(doc, name, value) for every field.
RECURSIVE SetAll(_, _, _, _)
SetAll(attrs, setattrs, fields, names) ==
    IF names = {} THEN [a |-> attrs, p |-> setattrs]
    ELSE LET k == CHOOSE x \in names : TRUE
             r == SetResourceAttr(attrs, setattrs, k, fields[k])
         IN  SetAll(r.a, r.p, fields, names \ {k})

\* The documents of docs.
DocsOf(docs) == {docs[i] : i \in 1..Len(docs)}

\* update(docs, **fields) and what it did; the run ends with it.
UpdateDone(docs, fields, exc, sent) ==
    /\ op' = OpRec("update", "", "", None, None, exc, << >>)
    /\ reqs' = sent
    /\ pre' = [core |-> Core, op |-> op]
    /\ nops' = nops + 1
    /\ call' = [pc |-> "update", docs |-> docs, fields |-> fields]
    /\ UNCHANGED gen

\* update(docs, **fields).
Update(docs, fields, out) ==
    /\ Running
    /\ call.pc = "none"
    /\ IF Invalid(Core, docs)
       THEN /\ UNCHANGED <<attributes, set_attributes, owner, my_user_id>>
            /\ UpdateDone(docs, fields, "ValueError", << >>)
       ELSE IF Len(docs) > 0 /\ JoinIds(Core, docs).raised # ""
       THEN /\ UNCHANGED <<attributes, set_attributes, owner, my_user_id>>
            /\ UpdateDone(docs, fields, JoinIds(Core, docs).raised, << >>)
       ELSE IF Len(docs) > 0 /\ KwClash(fields, {"doc_ids", "method"})
       THEN /\ UNCHANGED <<attributes, set_attributes, owner, my_user_id>>
            /\ UpdateDone(docs, fields, "TypeError", << >>)
       ELSE LET r == IF Len(docs) > 0
                     THEN UserSendRequest(owner[docs[1]], "docs.changeSettings",
                                          DictSet(fields, "doc_ids", JoinIds(Core, docs).val), out)
                     ELSE [raised |-> "", xml |-> << >>, req |-> << >>]
                sent == IF Len(docs) > 0 THEN << r.req >> ELSE << >>
            IN  IF r.raised # ""
                THEN /\ UNCHANGED <<attributes, set_attributes, owner, my_user_id>>
                     /\ UpdateDone(docs, fields, r.raised, sent)
                ELSE /\ attributes' = [e \in DOMAIN attributes |->
                            IF e \in DocsOf(docs)
                            THEN SetAll(attributes[e], set_attributes[e], fields, DOMAIN fields).a
                            ELSE attributes[e]]
                     /\ set_attributes' = [e \in DOMAIN set_attributes |->
                            IF e \in DocsOf(docs)
                            THEN SetAll(attributes[e], set_attributes[e], fields, DOMAIN fields).p
                            ELSE set_attributes[e]]
                     /\ UNCHANGED <<owner, my_user_id>>
                     /\ UpdateDone(docs, fields, "", sent)

\* What the application sets before it calls update.
UpdateSets == {
    <<"d1", "title", I("7")>>,
    <<"d2", "doc_id", S("b")>>,
    <<"u2", "user_id", I("7")>> }

\* Two Documents made from responses, each with one of the users as its
\* owner.
InitUpdate ==
    /\ \E t \in Trees :
         attributes = [e \in UpdateEnts |->
             IF e = "d1" THEN InitAttributes(t)
             ELSE IF e = "d2" THEN InitAttributes(<< El("doc_id", "a", ""), NullEl("title") >>)
             ELSE IF e = "u1" THEN InitAttributes(LoginXml)
             ELSE EmptyDict]
    /\ set_attributes = [e \in UpdateEnts |-> EmptyDict]
    /\ owner \in [EqDocs -> UpdateUsers]
    /\ my_user_id = [u \in {"v1"} |-> S("v1")]
    /\ op = OpRec("init", "", "", None, None, "", << >>)
    /\ reqs = << >>
    /\ pre = [core |-> Core, op |-> op]
    /\ nops = 0
    /\ call = NoCall
    /\ gen = NoGen

NextUpdate ==
    \/ \E x \in UpdateSets : call.pc = "none" /\ SetAttr(x[1], x[2], x[3])
    \/ \E docs \in UpdateArgs, fields \in UpdateFields, out \in Acks : Update(docs, fields, out)

SpecUpdate == InitUpdate /\ [][NextUpdate]_vars

\* ------------------------------------------------------------------ get_scribd_url

\* The responses of docs.getSettings, and the elements Documents are made
\* from, that the URL of a document depends on.
UrlTrees == {
    << El("doc_id", "a", ""), El("title", "a b", "") >>,
    << El("doc_id", "a", ""), El("access", "private", ""), El("secret_password", "s", "") >>,
    << El("doc_id", "7", "integer"), El("access", "public", ""), El("secret_password", "s", "") >>,
    << El("doc_id", "a", ""), El("access", "private", ""), NullEl("title") >>,
    << El("title", "a", ""), El("access", "private", ""), El("secret_password", "7", "integer") >> }
UrlOutcomes == [kind : {"ok"}, xml : UrlTrees] \cup [kind : Errors, xml : {<< >>}]

\* What the application sets on a document before it asks for its URL.
UrlSets == {
    <<"access", S("private")>>, <<"access", S("public")>>, <<"access", None>>,
    <<"secret_password", S("t")>> }

\* str(v), as the % operator makes it.
Str(v) == IF v = None THEN "None" ELSE v.s

\* Lines 709-713: every character that is not alphanumeric becomes a blank,
\* and the words are joined with '-'.
Slug(text) == IF text = "a b" THEN "a-b" ELSE text

\* Lines 707-715: the title part of the URL; '' when the document has no
\* title or its title has no encode method.
TitlePart(c, d) ==
    IF LookupIn(c, d, "title").raised # "" \/ LookupIn(c, d, "title").val.t # "str" THEN ""
    ELSE Slug(LookupIn(c, d, "title").val.s)

\* Faulty variant: the document is loaded every time.
ReloadNeeded_always(c, d) == TRUE

\* Line 717: not hasattr(self, 'access').
ReloadNeeded(c, d) == LookupIn(c, d, "access").raised # ""

\* Faulty variant: the reload keeps what was set.
LoadIn_keepsPending(c, d, out) ==
    IF LookupIn(c, d, "doc_id").raised # ""
    THEN [raised |-> "AttributeError", sent |-> << >>, xml |-> << >>,
          a |-> c.attributes[d], p |-> c.set_attributes[d]]
    ELSE LET r == DocSendRequest(d, "docs.getSettings",
                                 DictSet(EmptyDict, "doc_id", LookupIn(c, d, "doc_id").val), out)
             l == LoadAttributes(c.attributes[d], c.set_attributes[d], r.xml)
         IN  IF r.raised # ""
             THEN [raised |-> r.raised, sent |-> << r.req >>, xml |-> << >>,
                   a |-> c.attributes[d], p |-> c.set_attributes[d]]
             ELSE [raised |-> "", sent |-> << r.req >>, xml |-> r.xml,
                   a |-> l.a, p |-> c.set_attributes[d]]

\* Line 718, self.load(), on the objects c of the state: what it raised,
\* the request it sent, and the dictionaries of d after it.
LoadIn(c, d, out) ==
    IF LookupIn(c, d, "doc_id").raised # ""
    THEN [raised |-> "AttributeError", sent |-> << >>, xml |-> << >>,
          a |-> c.attributes[d], p |-> c.set_attributes[d]]
    ELSE LET r == DocSendRequest(d, "docs.getSettings",
                                 DictSet(EmptyDict, "doc_id", LookupIn(c, d, "doc_id").val), out)
             l == LoadAttributes(c.attributes[d], c.set_attributes[d], r.xml)
         IN  IF r.raised # ""
             THEN [raised |-> r.raised, sent |-> << r.req >>, xml |-> << >>,
                   a |-> c.attributes[d], p |-> c.set_attributes[d]]
             ELSE [raised |-> "", sent |-> << r.req >>, xml |-> r.xml, a |-> l.a, p |-> l.p]

\* Lines 721-723: what is added to the title part, on the dictionaries a
\* and p of the document.
SecretPart(a, p) ==
    LET c == [attributes |-> [x \in {"d"} |-> a], set_attributes |-> [x \in {"d"} |-> p]]
        acc == LookupIn(c, "d", "access")
        sec == LookupIn(c, "d", "secret_password")
    IN  IF acc.raised # "" THEN Raise("AttributeError")
        ELSE IF ~PyEq(acc.val, S("private")) THEN Ok(S(""))
        ELSE IF sec.raised # "" THEN Raise("AttributeError")
        ELSE IF sec.val.t # "str" THEN Raise("TypeError")
        ELSE Ok(S("?secret_password=" \o sec.val.s))

\* Line 724.
ScribdUrl(id, title) == "http://www.scribd.com/doc/" \o Str(id) \o "/" \o title

\* Document.get_scribd_url; arg of the operation is what the reload did:
\* "" when there was none, "loaded", or the exception it raised.
GetScribdUrl(d, out) ==
    /\ Running
    /\ LET need == ReloadNeeded(Core, d)
           l == IF need THEN LoadIn(Core, d, out)
                ELSE [raised |-> "", sent |-> << >>, xml |-> << >>,
                      a |-> attributes[d], p |-> set_attributes[d]]
           how == IF ~need THEN "" ELSE IF l.raised = "" THEN "loaded" ELSE l.raised
           swallowed == l.raised \in Errors
           after == [attributes |-> [x \in {"d"} |-> l.a], set_attributes |-> [x \in {"d"} |-> l.p]]
           secret == IF swallowed THEN Ok(S("")) ELSE SecretPart(l.a, l.p)
           id == LookupIn(after, "d", "doc_id")
           exc == IF l.raised # "" /\ ~swallowed THEN l.raised
                  ELSE IF secret.raised # "" THEN secret.raised
                  ELSE id.raised
           title == TitlePart(Core, d)
       IN  /\ attributes' = [attributes EXCEPT ![d] = l.a]
           /\ set_attributes' = [set_attributes EXCEPT ![d] = l.p]
           /\ UNCHANGED <<owner, my_user_id>>
           /\ Step(OpRec("get_scribd_url", d, how, None,
                         IF exc = "" THEN S(ScribdUrl(id.val, title \o secret.val.s)) ELSE None,
                         exc, l.xml),
                   l.sent)

\* Element.get(name) of xmlparse: the first subelement with that name, or
\* KeyError.
XmlGet(xml, name) ==
    IF \E i \in 1..Len(xml) : xml[i].name = name
    THEN Ok(xml[CHOOSE i \in 1..Len(xml) :
                  xml[i].name = name /\ \A j \in 1..(i - 1) : xml[j].name # name])
    ELSE Raise("KeyError")

\* The responses of docs.getConversionStatus and docs.getDownloadUrl.
StatusTrees == {
    << El("conversion_status", "DONE", "") >>,
    << El("download_link", "http://host/f", "") >>,
    << El("title", "x", "") >> }
StatusOutcomes == [kind : {"ok"}, xml : StatusTrees] \cup [kind : Errors, xml : {<< >>}]

\* Lines 605-606, 613 and 630-632: a request with the doc_id of the
\* document, and str() of the text of one subelement of the response (of
\* none for delete); no attribute of the document is touched.
Fetch(name, method, d, fields, tag, out) ==
    IF GetAttr(d, "doc_id").raised # ""
       THEN Raised(name, d, GetAttr(d, "doc_id").raised, << >>)
       ELSE LET r == DocSendRequest(d, method, DictSet(fields, "doc_id", GetAttr(d, "doc_id").val), out)
                el == XmlGet(r.xml, tag)
            IN  IF r.raised # "" THEN Raised(name, d, r.raised, << r.req >>)
                ELSE IF tag # "" /\ el.raised # "" THEN Raised(name, d, el.raised, << r.req >>)
                ELSE /\ UNCHANGED <<attributes, set_attributes, owner, my_user_id>>
                     /\ Step(OpRec(name, d, "", None,
                                   IF tag = "" THEN None
                                   ELSE S(IF el.val.null THEN "None" ELSE el.val.text),
                                   "", r.xml),
                             << r.req >>)

\* Document.get_conversion_status, Document.get_download_url and
\* Document.delete.
GetConversionStatus(d, out) ==
    /\ Running
    /\ Fetch("get_conversion_status", "docs.getConversionStatus", d, EmptyDict,
             "conversion_status", out)
GetDownloadUrl(d, type, out) ==
    /\ Running
    /\ Fetch("get_download_url", "docs.getDownloadUrl", d,
             DictSet(EmptyDict, "doc_type", S(type)), "download_link", out)
Delete(d, out) ==
    /\ Running
    /\ Fetch("delete", "docs.delete", d, EmptyDict, "", out)

\* One Document made from a response, with one of the users as its owner.
InitUrl ==
    /\ \E t \in UrlTrees :
         attributes = [e \in Ents |->
             IF e \in Docs THEN InitAttributes(t)
             ELSE IF e = "u1" THEN InitAttributes(LoginXml)
             ELSE EmptyDict]
    /\ set_attributes = [e \in Ents |-> EmptyDict]
    /\ owner \in [Docs -> Users]
    /\ my_user_id = [u \in {"v1"} |-> S("v1")]
    /\ op = OpRec("init", "", "", None, None, "", << >>)
    /\ reqs = << >>
    /\ pre = [core |-> Core, op |-> op]
    /\ nops = 0
    /\ call = NoCall
    /\ gen = NoGen

NextUrl ==
    \/ \E d \in Docs, x \in UrlSets : SetAttr(d, x[1], x[2])
    \/ \E d \in Docs, out \in UrlOutcomes : GetScribdUrl(d, out)
    \/ \E d \in Docs, out \in StatusOutcomes : GetConversionStatus(d, out)
    \/ \E d \in Docs, out \in StatusOutcomes : GetDownloadUrl(d, "original", out)
    \/ \E d \in Docs, out \in StatusOutcomes : Delete(d, out)

SpecUrl == InitUrl /\ [][NextUrl]_vars

\* ------------------------------------------------------------------ operations of a user

\* The responses of user.getAutoSigninUrl.
AutologinTrees == {
    << El("url", "http://host/in", "") >>,
    << NullEl("url") >>,
    << El("title", "a", "") >> }
AutologinOutcomes == [kind : {"ok"}, xml : AutologinTrees] \cup [kind : Errors, xml : {<< >>}]

\* The next_url arguments, '' being the default.
NextUrls == {"", "/docs"}

\* Faulty variant: a virtual user has an autologin URL as well.
OverridesAutologin_never(u) == FALSE

\* Lines 530-532: VirtualUser overrides get_autologin_url.
OverridesAutologin(u) == Kind(u) = "VirtualUser"

\* get_autologin_url of User and of VirtualUser.
GetAutologinUrl(u, next, out) ==
    /\ Running
    /\ IF OverridesAutologin(u)
       THEN Raised("get_autologin_url", u, "NotImplementedError", << >>)
       ELSE LET r == UserSendRequest(u, "user.getAutoSigninUrl", DictSet(EmptyDict, "next_url", S(next)), out)
                url == XmlGet(r.xml, "url")
            IN  IF r.raised # "" THEN Raised("get_autologin_url", u, r.raised, << r.req >>)
                ELSE IF url.raised # "" THEN Raised("get_autologin_url", u, url.raised, << r.req >>)
                ELSE /\ UNCHANGED <<attributes, set_attributes, owner, my_user_id>>
                     /\ Step(OpRec("get_autologin_url", u, next, None,
                                   S(IF url.val.null THEN "None" ELSE url.val.text), "", r.xml),
                             << r.req >>)

\* User.get(doc_id): a Document of this user made from the response.
Get(u, id, out) ==
    /\ Running
    /\ LET r == UserSendRequest(u, "docs.getSettings", DictSet(EmptyDict, "doc_id", id), out)
       IN  IF r.raised # "" THEN Raised("get", u, r.raised, << r.req >>)
           ELSE /\ UNCHANGED <<attributes, set_attributes, owner, my_user_id>>
                /\ Step(OpRec("get", u, id.s, None, Obj("new"), "", r.xml), << r.req >>)

NextUser ==
    \/ \E u \in Users, name \in {"session_key", "my_user_id"}, v \in SessionVals : SetAttr(u, name, v)
    \/ \E u \in Users, next \in NextUrls, out \in AutologinOutcomes : GetAutologinUrl(u, next, out)
    \/ \E u \in Users, out \in Outcomes : Get(u, S("a"), out)
    \/ \E u \in Users, path \in Paths, out \in Acks : Upload(u, path, out)

SpecUser == Init /\ [][NextUser]_vars

\* ------------------------------------------------------------------ consuming a generator

\* The consumer of a generator: the number of next() calls it has made, and
\* whether it has dropped the generator.
NewConsumer == [pc |-> "consumer", asked |-> 0, stopped |-> FALSE]

\* The generator is one of xall, not of xfind.
IsXall == "kind" \notin DOMAIN gen

\* The generator has returned from every next() so far: with an item, by
\* ending, or by raising.
Suspended == call.asked = Len(gen.yielded) \/ gen.pc \in {"done", "raised"}

\* Faulty variant: the body of the generator runs ahead of the consumer.
Resumed_eager == gen.pc \notin {"none", "done", "raised"}

\* Lines 293-294 and 400-401: the body of a generator function runs only
\* inside a next() call, from where it was suspended to its next yield.
Resumed == gen.pc \notin {"none", "done", "raised"} /\ call.asked > Len(gen.yielded)

\* The consumer calls next().
Ask ==
    /\ gen.pc \notin {"none", "done", "raised"}
    /\ ~call.stopped
    /\ Suspended
    /\ call' = [call EXCEPT !.asked = @ + 1]
    /\ UNCHANGED <<objvars, gen>>

\* The consumer leaves its loop and drops the generator.
Stop ==
    /\ gen.pc # "none"
    /\ ~call.stopped
    /\ Suspended
    /\ call' = [call EXCEPT !.stopped = TRUE]
    /\ UNCHANGED <<objvars, gen>>

\* user.xall(page_size=p) or user.xfind(...) has just been called.
InitLazy ==
    /\ InitObjects
    /\ call = NewConsumer
    /\ \/ \E n \in 0..MaxItems, p \in PageSizes : gen = NewGen(n, p)
       \/ gen = NoGen

NextLazy ==
    \/ Ask
    \/ Stop
    \/ \E offset \in SearchOffsets, size \in SearchSizes, t \in 0..MaxResults :
         Xfind("u1", FALSE, "absent", offset, size, t)
    \/ \E ok \in BOOLEAN : Resumed /\ IsXall /\ GetList(ok)
    \/ Resumed /\ IsXall /\ Yield
    \/ Resumed /\ IsXall /\ PageDone
    \/ \E ok \in BOOLEAN : Resumed /\ ~IsXall /\ Search(ok)
    \/ Resumed /\ ~IsXall /\ XfindYield
    \/ Resumed /\ ~IsXall /\ XfindPageDone

SpecLazy == InitLazy /\ [][NextLazy]_vars

\* ------------------------------------------------------------------ properties

\* The last operation, the object it was called on and that object's
\* dictionaries as the operation found them.
PreA(e) == pre.core.attributes[e]
PreP(e) == pre.core.set_attributes[e]
Succeeded(name) == op.name = name /\ op.raised = ""

\* The field a value is sent as.
Sent(v) == S(v.s)

\* The fields the request layer sets itself, whatever the caller passed.
OwnFields == {"doc_ids", "session_key", "my_user_id", "method", "api_key", "api_sig"}

\* The last subelement of xml with the tag name k.
LastEl(xml, k) ==
    xml[CHOOSE i \in 1..Len(xml) : xml[i].name = k /\ \A j \in (i+1)..Len(xml) : xml[j].name # k]

\* What a successful save leaves: every externally set value is loaded,
\* none is externally set any more, and the call returned True.
SavedAll(d) ==
    /\ \A k \in DOMAIN PreP(d) : k \in DOMAIN attributes[d] /\ attributes[d][k] = PreP(d)[k]
    /\ set_attributes[d] = EmptyDict
    /\ op.ret = True

\* C1 as claimed: save() with a non-empty _set_attributes sends exactly one
\* docs.changeSettings request with doc_ids = the document's id and every
\* externally set attribute with its value; when the request succeeds the
\* values are loaded values, _set_attributes is empty and save returns True.
C1_SaveSendsEveryPendingField ==
    \A d \in Docs : (op.name = "save" /\ op.ent = d /\ PreP(d) # EmptyDict) =>
        /\ Len(reqs) = 1
        /\ reqs[1].method = "docs.changeSettings"
        /\ "doc_ids" \in DOMAIN reqs[1].fields
        /\ reqs[1].fields["doc_ids"] = Sent(GetIdIn(pre.core, d).val)
        /\ \A k \in DOMAIN PreP(d) :
              k \in DOMAIN reqs[1].fields /\ reqs[1].fields[k] = Sent(PreP(d)[k])
        /\ (op.raised = "" => SavedAll(d))

\* C1 as the code has it: save() with a non-empty _set_attributes on a
\* document whose doc_id can be read sends exactly one docs.changeSettings
\* request; doc_ids and every externally set attribute that is not a field
\* of the request layer itself are sent as strings, except that a value None
\* is not sent at all; when the request succeeds the values are loaded
\* values, _set_attributes is empty and save returns True.
C1_SaveSendsPendingFields ==
    \A d \in Docs :
        (op.name = "save" /\ op.ent = d /\ PreP(d) # EmptyDict
            /\ GetAttrIn(pre.core, d, "doc_id").raised = "") =>
        /\ Len(reqs) = 1
        /\ reqs[1].method = "docs.changeSettings"
        /\ IF GetIdIn(pre.core, d).val = None
           THEN "doc_ids" \notin DOMAIN reqs[1].fields
           ELSE /\ "doc_ids" \in DOMAIN reqs[1].fields
                /\ reqs[1].fields["doc_ids"] = Sent(GetIdIn(pre.core, d).val)
        /\ \A k \in DOMAIN PreP(d) \ OwnFields :
              IF PreP(d)[k] = None
              THEN k \notin DOMAIN reqs[1].fields
              ELSE k \in DOMAIN reqs[1].fields /\ reqs[1].fields[k] = Sent(PreP(d)[k])
        /\ (op.raised = "" => SavedAll(d))

\* A save that sent the title set before and made it a loaded value.
C1_Witness ==
    /\ Succeeded("save") /\ op.ret = True /\ Len(reqs) = 1
    /\ "title" \in DOMAIN PreP("d1") /\ PreP("d1")["title"] = I("7")
    /\ "title" \in DOMAIN reqs[1].fields /\ reqs[1].fields["title"] = S("7")
    /\ attributes["d1"]["title"] = I("7")
    /\ set_attributes["d1"] = EmptyDict

\* C2: an operation that raised (a failed save, upload or replace among
\* them) left the dictionaries, the instance variables and the id of every
\* object as they were; and save merges and clears _set_attributes only
\* when its one request succeeded.
C2_FailureLeavesObjects ==
    /\ op.raised # "" =>
        /\ Core = pre.core
        /\ \A e \in Ents : GetId(e) = GetIdIn(pre.core, e)
    /\ \A d \in Docs :
        (op.name = "save" /\ op.ent = d
            /\ (set_attributes[d] # PreP(d) \/ attributes[d] # PreA(d))) =>
        (op.raised = "" /\ Len(reqs) = 1)

\* A save whose request failed while an attribute was set.
C2_Witness ==
    /\ op.name = "save" /\ op.raised \in Errors /\ Len(reqs) = 1
    /\ "title" \in DOMAIN set_attributes["d1"]
    /\ set_attributes["d1"] = PreP("d1")

\* C3: a load drops from _set_attributes every name that is a subelement of
\* the response and leaves every other externally set name with its value;
\* an object made from a response has nothing externally set.
C3_LoadSupersedesPending ==
    /\ op.name = "init" => \A e \in Ents : set_attributes[e] = EmptyDict
    /\ \A d \in Docs : (Succeeded("load") /\ op.ent = d) =>
        \A k \in DOMAIN PreP(d) \cup DOMAIN set_attributes[d] :
            IF k \in TagNames(op.xml)
            THEN k \notin DOMAIN set_attributes[d]
            ELSE /\ k \in DOMAIN PreP(d)
                 /\ k \in DOMAIN set_attributes[d]
                 /\ set_attributes[d][k] = PreP(d)[k]

\* A load that dropped one externally set name and kept another.
C3_Witness ==
    /\ Succeeded("load")
    /\ \E k \in DOMAIN PreP("d1") : k \in TagNames(op.xml) /\ k \notin DOMAIN set_attributes["d1"]
    /\ \E k \in DOMAIN PreP("d1") : k \notin TagNames(op.xml) /\ k \in DOMAIN set_attributes["d1"]

\* C4 as claimed: after a load the names in _attributes are exactly the
\* subelements of the response.
C4_LoadReplacesStored ==
    \A d \in Docs : (Succeeded("load") /\ op.ent = d) =>
        DOMAIN attributes[d] = TagNames(op.xml)

\* C4 as the code has it: a load merges the response into _attributes:
\* every subelement is loaded with its converted text (the last one of a
\* name that occurs twice), and every name loaded before that the response
\* does not have keeps its value.
C4_LoadMergesIntoStored ==
    \A d \in Docs : (Succeeded("load") /\ op.ent = d) =>
        /\ DOMAIN attributes[d] = DOMAIN PreA(d) \cup TagNames(op.xml)
        /\ \A k \in TagNames(op.xml) : attributes[d][k] = Coerce(LastEl(op.xml, k))
        /\ \A k \in DOMAIN PreA(d) \ TagNames(op.xml) : attributes[d][k] = PreA(d)[k]

\* A load that kept a name the response did not have and overwrote one it had.
C4_Witness ==
    /\ Succeeded("load")
    /\ \E k \in DOMAIN PreA("d1") : k \notin TagNames(op.xml) /\ k \in DOMAIN attributes["d1"]
    /\ \E k \in DOMAIN PreA("d1") : k \in TagNames(op.xml) /\ attributes["d1"][k] # PreA("d1")[k]

\* C5 as claimed: an attribute that has just been set reads as the value set.
C5_SetThenGet ==
    op.name = "set" => GetAttr(op.ent, op.arg) = Ok(op.val)

\* The names of an object that are read and written as resource attributes.
DynamicNames(e) == AttrNames(e) \ (InstanceVars(e) \cup {"id"})

\* C6 as claimed: a resource attribute reads as its externally set value,
\* else as its loaded value, else raises AttributeError; get_attributes()
\* is the union of both dictionaries in which the externally set value
\* wins; and every key of get_attributes() reads as its value there.
C6_ReadsArePendingFirst ==
    \A e \in Ents :
        /\ \A name \in DynamicNames(e) :
              GetAttr(e, name) =
                  IF name \in DOMAIN set_attributes[e] THEN Ok(set_attributes[e][name])
                  ELSE IF name \in DOMAIN attributes[e] THEN Ok(attributes[e][name])
                  ELSE Raise("AttributeError")
        /\ DOMAIN GetAttributes(e) = DOMAIN attributes[e] \cup DOMAIN set_attributes[e]
        /\ \A k \in DOMAIN GetAttributes(e) :
              GetAttributes(e)[k] =
                  IF k \in DOMAIN set_attributes[e] THEN set_attributes[e][k] ELSE attributes[e][k]
        /\ \A k \in DOMAIN GetAttributes(e) : GetAttr(e, k) = Ok(GetAttributes(e)[k])

\* The instance variables the classes set up before Resource.__init__.
Structural(e, name) ==
    \/ Kind(e) = "Document" /\ name = "owner"
    \/ Kind(e) = "VirtualUser" /\ name = "my_user_id"

\* C7: a set leaves _attributes of every object alone; the set of a
\* resource attribute puts the value into _set_attributes of the object
\* and leaves every other entry, and every other object, as it was; and
\* _attributes changes only in a load, a save or a replace that succeeded.
C7_SetLeavesStored ==
    /\ op.name = "set" => attributes = pre.core.attributes
    /\ \A e \in Ents : (op.name = "set" /\ op.ent = e /\ ~Structural(e, op.arg)) =>
        /\ DOMAIN set_attributes[e] = DOMAIN PreP(e) \cup {op.arg}
        /\ set_attributes[e][op.arg] = op.val
        /\ \A k \in DOMAIN PreP(e) \ {op.arg} : set_attributes[e][k] = PreP(e)[k]
        /\ \A x \in Ents \ {e} : set_attributes[x] = PreP(x)
        /\ owner = pre.core.owner /\ my_user_id = pre.core.my_user_id
    /\ attributes # pre.core.attributes =>
        /\ op.raised = ""
        /\ op.name \in {"load", "save", "replace", "replace_from_url"}

\* A set that overwrote an externally set value of a loaded name, next to
\* another externally set name.
C7_Witness ==
    /\ op.name = "set" /\ op.ent = "d1" /\ op.arg = "title"
    /\ "title" \in DOMAIN PreA("d1")
    /\ "title" \in DOMAIN PreP("d1") /\ PreP("d1")["title"] # op.val
    /\ "doc_id" \in DOMAIN PreP("d1")

\* The attributes C8 calls structural.
ClaimedStructural(e) ==
    IF Kind(e) = "Document" THEN {"doc_id", "owner"}
    ELSE IF Kind(e) = "VirtualUser" THEN {"user_id", "session_key", "my_user_id"}
    ELSE {"user_id", "session_key"}

C9_EmptySaveIsNoOp ==
    /\ \A d \in Docs : (op.name = "save" /\ op.ent = d /\ PreP(d) = EmptyDict) =>
        /\ op.ret = False /\ op.raised = ""
        /\ reqs = << >>
        /\ Core = pre.core
    /\ \A d \in Docs :
        (op.name = "save" /\ op.ent = d /\ pre.op.name = "save" /\ pre.op.ent = d
            /\ pre.op.ret = True) =>
        /\ op.ret = False /\ op.raised = ""
        /\ reqs = << >>
        /\ Core = pre.core

\* A save right after a save that sent the values set.
C9_Witness ==
    /\ op.name = "save" /\ op.ret = False
    /\ pre.op.name = "save" /\ pre.op.ret = True

\* The attribute the id of an object is read from, and whether the object
\* had it before the last operation.
IdField(e) ==
    IF Kind(e) = "Document" THEN "doc_id"
    ELSE IF Kind(e) = "VirtualUser" THEN "my_user_id"
    ELSE "user_id"
IdLoaded(e) == Kind(e) = "VirtualUser" \/ IdField(e) \in DOMAIN PreA(e)

HasId(e) == GetAttr(e, "id").raised = ""
IdOf(e) == GetAttr(e, "id").val

\* C11: a == b of two objects that have ids is True exactly when their ids
\* are equal and False otherwise, whatever the objects are; and two
\* objects that compare equal have the same hash.
C11_EqualIffSameId ==
    /\ (op.name = "eq" /\ HasId(op.ent) /\ HasId(op.arg)) =>
        /\ op.raised = ""
        /\ op.ret = (IF PyEq(IdOf(op.ent), IdOf(op.arg)) THEN True ELSE False)
    /\ \A a \in EqEnts, b \in EqEnts :
        (HasId(a) /\ HasId(b) /\ ResourceEq(Core, a, b) = Ok(True)) =>
            /\ ResourceHash(Core, a).raised = ""
            /\ ResourceHash(Core, a) = ResourceHash(Core, b)
    /\ (op.name = "hash" /\ HasId(op.ent)) =>
        /\ op.raised = ""
        /\ \A b \in EqEnts : (HasId(b) /\ PyEq(IdOf(op.ent), IdOf(b))) =>
              op.ret = ResourceHash(Core, b).val

\* Two Documents with the same doc_id compared equal.
C11_Witness ==
    /\ op.name = "eq" /\ op.ent = "d1" /\ op.arg = "d2" /\ op.ret = True
    /\ IdOf("d1") = IdOf("d2")
    /\ ResourceHash(Core, "d1") = ResourceHash(Core, "d2")

\* Two Documents with different doc_ids compared unequal.
C11_WitnessDifferent ==
    /\ op.name = "eq" /\ op.ent = "d1" /\ op.arg = "d2" /\ op.ret = False
    /\ IdOf("d1") # IdOf("d2")

\* C12 as claimed: a Document and a User never compare equal.
C12_KindsNeverEqual ==
    (op.name = "eq" /\ Kind(op.ent) # Kind(op.arg)
        /\ "Document" \in {Kind(op.ent), Kind(op.arg)}) => op.ret # True

\* The attempts of the call so far, the last of them, and the seconds from
\* start_time to the end of an attempt.
Attempts == Len(call.log)
LastAttempt == call.log[Len(call.log)]
Elapsed(i) == call.log[i].at - call.start
InCall == call.pc \in {"post", "done"} /\ call.log # << >>

\* The ways an attempt ends: a failure that is tried again, one of the four
\* that are not, or a response with an rsp envelope.
Transient(resp) == resp.exception \/ StatusOf(resp.status) = "500"
OtherStatus(resp) == ~resp.exception /\ StatusOf(resp.status) \notin {"200", "500"}
NotXml(resp) ==
    ~resp.exception /\ StatusOf(resp.status) = "200" /\ ContentTypeOf(resp.ctype) # "application/xml"
Unparsable(resp) ==
    /\ ~resp.exception /\ StatusOf(resp.status) = "200"
    /\ ContentTypeOf(resp.ctype) = "application/xml" /\ ~resp.body.parses
WrongRoot(resp) ==
    /\ ~resp.exception /\ StatusOf(resp.status) = "200"
    /\ ContentTypeOf(resp.ctype) = "application/xml" /\ resp.body.parses /\ resp.body.root # "rsp"
Fatal(resp) == OtherStatus(resp) \/ NotXml(resp) \/ Unparsable(resp) \/ WrongRoot(resp)
Enveloped(resp) == ~Transient(resp) /\ ~Fatal(resp)

\* C13: every attempt before the last one ended in an exception or a
\* status 500 less than 10 seconds after start_time, and every attempt sent
\* the same request; after such a failure less than 10 seconds after
\* start_time the loop goes on, after one 10 seconds or more after it the
\* call raises NotReadyError, whichever of the two kinds the failures were;
\* and a response with an envelope ends the loop.
C13_RetryWindow ==
    InCall =>
        /\ \A i \in 1..(Attempts - 1) : Transient(call.log[i].resp) /\ Elapsed(i) < 10
        /\ \A i \in 1..Attempts : call.log[i].req = call.wire
        /\ (Transient(LastAttempt.resp) /\ Elapsed(Attempts) < 10) =>
              call.pc = "post" /\ call.raised = ""
        /\ (Transient(LastAttempt.resp) /\ Elapsed(Attempts) >= 10) =>
              call.pc = "done" /\ call.raised = "NotReadyError"
        /\ Enveloped(LastAttempt.resp) =>
              call.pc = "done" /\ call.raised \in {"", "ResponseError"}

\* An exception, then a status 500 inside the 10 seconds, then a status 500
\* after them: the call raised at the third attempt.
C13_Witness ==
    /\ call.pc = "done" /\ Attempts = 3 /\ call.raised = "NotReadyError"
    /\ call.log[1].resp.exception
    /\ StatusOf(call.log[2].resp.status) = "500" /\ ~call.log[2].resp.exception
    /\ StatusOf(call.log[3].resp.status) = "500" /\ ~call.log[3].resp.exception
    /\ Elapsed(1) > 0 /\ Elapsed(2) < 10 /\ Elapsed(3) >= 10

\* C14: an attempt that ends in a status other than 200 and 500, in a
\* content type other than application/xml, in a body that does not parse
\* or in a root element other than rsp is the last one and the call
\* raises; when it is the first attempt it is the only one.
C14_FatalResponseNotRetried ==
    InCall =>
        /\ \A i \in 1..Attempts : Fatal(call.log[i].resp) =>
              /\ i = Attempts
              /\ call.pc = "done"
              /\ call.raised \in {"NotReadyError", "MalformedResponseError"}
        /\ Fatal(call.log[1].resp) => Attempts = 1

\* A status 404 at once: one attempt, although the 10 seconds are not over.
C14_Witness ==
    /\ call.pc = "done" /\ Attempts = 1 /\ call.raised # ""
    /\ OtherStatus(call.log[1].resp)
    /\ Elapsed(1) < 10

\* C15 as claimed: in each of the four cases the call raises
\* MalformedResponseError.
C15_FatalIsMalformed ==
    (InCall /\ Fatal(LastAttempt.resp)) => call.raised = "MalformedResponseError"

\* C16: an envelope with stat "fail" raises ResponseError with the code of
\* the error element and 'method: message', or with -1 and a message made
\* of the envelope when it has no error element; any other envelope is
\* what the call returns.
C16_FailEnvelopeRaises ==
    (InCall /\ Enveloped(LastAttempt.resp)) =>
        /\ call.pc = "done"
        /\ (LastAttempt.resp.body.stat = "fail" /\ LastAttempt.resp.body.error.present) =>
              /\ call.raised = "ResponseError"
              /\ LastAttempt.resp.body.error.code = "401" => call.errno = 401
              /\ call.errstr = call.method \o ": " \o LastAttempt.resp.body.error.message
        /\ (LastAttempt.resp.body.stat = "fail" /\ ~LastAttempt.resp.body.error.present) =>
              /\ call.raised = "ResponseError"
              /\ call.errno = -1
              /\ call.errstr = call.method \o ": unidentified error:\n<rsp stat=\"fail\"/>"
        /\ LastAttempt.resp.body.stat # "fail" =>
              /\ call.raised = ""
              /\ call.ret = LastAttempt.resp.body

\* A fail envelope without an error element.
C16_Witness ==
    /\ call.pc = "done" /\ call.raised = "ResponseError" /\ call.errno = -1
    /\ LastAttempt.resp.body.stat = "fail" /\ ~LastAttempt.resp.body.error.present

\* C17: a call made while api_key or api_secret is empty raises
\* NotReadyError, a call with an empty method while both are set raises
\* ValueError; neither makes an attempt, and neither changes api_key,
\* api_secret or an object.
C17_PreconditionsChecked ==
    call.pc = "done" =>
        /\ (call.key_before = "" \/ call.secret_before = "") =>
              call.raised = "NotReadyError" /\ call.log = << >> /\ call.wire = EmptyDict
        /\ (call.key_before # "" /\ call.secret_before # "" /\ call.method = "") =>
              call.raised = "ValueError" /\ call.log = << >> /\ call.wire = EmptyDict
        /\ call.api_key = call.key_before /\ call.api_secret = call.secret_before
        /\ attributes = [e \in Ents |-> EmptyDict]
        /\ set_attributes = [e \in Ents |-> EmptyDict]
        /\ reqs = << >>

\* A call with a method, the key set and the secret empty.
C17_Witness ==
    /\ call.pc = "done" /\ call.raised = "NotReadyError" /\ call.log = << >>
    /\ call.api_key # "" /\ call.api_secret = "" /\ call.method # ""

\* A call with an empty method, key and secret set.
C17_WitnessMethod ==
    /\ call.pc = "done" /\ call.raised = "ValueError" /\ call.log = << >>
    /\ call.api_key # "" /\ call.api_secret # "" /\ call.method = ""

\* Two requests have been signed, one after the other.
TwoSigned == call.pc = "signed" /\ call.prev.pc = "signed"

\* C18: two requests signed with the same secret whose fields other than
\* file are the same have the same signature, whatever the order the
\* fields came in and whatever the file field holds.
C18_SignatureDeterministic ==
    (TwoSigned /\ call.secret = call.prev.secret
        /\ DictPop(call.wire, "file") = DictPop(call.prev.wire, "file")) =>
        call.sig = call.prev.sig

\* Two requests with the same fields in different orders and different
\* files, signed alike.
C18_Witness ==
    /\ TwoSigned /\ call.secret = call.prev.secret
    /\ DictPop(call.wire, "file") = DictPop(call.prev.wire, "file")
    /\ call.order # call.prev.order
    /\ "file" \in DOMAIN call.wire /\ "file" \in DOMAIN call.prev.wire
    /\ call.wire["file"] # call.prev.wire["file"]
    /\ call.sig = call.prev.sig

\* The user whose _send_request sent the requests of the last operation,
\* and what that user's session_key reads as.
Signer == IF op.name = "upload" THEN op.ent ELSE pre.core.owner[op.ent]
SignerKey == GetAttrIn(pre.core, Signer, "session_key")

C19_WitnessKey ==
    /\ op.name = "load" /\ Len(reqs) = 1 /\ Signer = "u1"
    /\ reqs[1].fields["session_key"] = S("a")

\* The offset the HOST takes a request to have.
OffsetOf(req) == IF req.offset.given THEN req.offset.val ELSE 0

\* C20: with a HOST that answers every request, xall yields the documents
\* 1..n in order and each once; every request has the page size as limit
\* and the offset of the request before it plus the number of results of
\* that page, the first one no offset; there are never more than
\* n \div p + 1 requests, and when the generator ends it has made exactly
\* that many, has yielded all n documents, and the last page, and no page
\* before it, had fewer than p results.
C20_XallPages ==
    (gen.pc \in {"request", "results", "done"}) =>
        /\ Len(gen.yielded) <= gen.n
        /\ \A i \in 1..Len(gen.yielded) : gen.yielded[i] = i
        /\ Len(gen.requests) <= (gen.n \div gen.limit) + 1
        /\ \A j \in 1..Len(gen.requests) :
              /\ gen.requests[j].limit = gen.limit
              /\ gen.requests[j].offset.given = (j > 1)
              /\ j > 1 => OffsetOf(gen.requests[j]) = OffsetOf(gen.requests[j - 1]) + gen.pages[j - 1]
              /\ gen.pages[j] = (IF gen.n - OffsetOf(gen.requests[j]) < gen.limit
                                 THEN gen.n - OffsetOf(gen.requests[j]) ELSE gen.limit)
        /\ \A j \in 1..(Len(gen.pages) - 1) : gen.pages[j] = gen.limit
        /\ gen.pc = "done" =>
              /\ Len(gen.yielded) = gen.n
              /\ Len(gen.requests) = (gen.n \div gen.limit) + 1
              /\ gen.pages[Len(gen.pages)] < gen.limit
        /\ gen.pc = "request" => Len(gen.requests) < (gen.n \div gen.limit) + 1

\* Five documents, page size 2: pages of 2, 2 and 1 in three requests.
C20_Witness ==
    /\ gen.pc = "done" /\ gen.n = 5 /\ gen.limit = 2
    /\ gen.pages = <<2, 2, 1>>
    /\ gen.yielded = <<1, 2, 3, 4, 5>>
    /\ Len(gen.requests) = 3

\* Four documents, page size 2: the third page is empty.
C20_WitnessEmptyPage ==
    /\ gen.pc = "done" /\ gen.n = 4 /\ gen.limit = 2
    /\ gen.pages = <<2, 2, 0>>

\* A search has been made, or a search generator is running.
Searching == gen.pc # "none" /\ gen.kind \in {"find", "xfind"}

\* C21: every Document find or xfind gives belongs to the user searched on
\* when the scope is 'user' or not given, and to api_user for any other
\* scope; the module-level find and xfind search on api_user with scope
\* 'all' when none is given, and their Documents belong to api_user.
C21_FoundOwner ==
    Searching =>
        /\ \A i \in 1..Len(gen.yielded) :
              gen.yielded[i].owner =
                  IF gen.module THEN "api_user"
                  ELSE IF gen.scope \in {"absent", "user"} THEN gen.self
                  ELSE "api_user"
        /\ gen.module => \A j \in 1..Len(gen.requests) :
              /\ gen.requests[j].through = "api_user"
              /\ gen.requests[j].scope = (IF gen.scope = "absent" THEN "all" ELSE gen.scope)

\* xfind of a user with scope 'all' gave a Document of api_user.
C21_Witness ==
    /\ Searching /\ gen.kind = "xfind" /\ ~gen.module /\ gen.self = "u1" /\ gen.scope = "all"
    /\ Len(gen.yielded) > 0 /\ gen.yielded[1].owner = "api_user"

\* find of a user without a scope gave Documents of that user.
C21_WitnessUser ==
    /\ Searching /\ gen.kind = "find" /\ ~gen.module /\ gen.self = "v1" /\ gen.scope = "absent"
    /\ Len(gen.yielded) > 1 /\ gen.yielded[2].owner = "v1"

\* C30: the first request of xfind has num_start = offset + 1; every later
\* one has num_start = firstResultPosition + totalResultsReturned - 1 of
\* the page before it, which is less than that page's
\* totalResultsAvailable; and the generator ends, with no further request,
\* at the first page for which that sum is not less.
C30_XfindStart ==
    (Searching /\ gen.kind = "xfind" /\ gen.pc # "raised") =>
        /\ \A j \in 1..Len(gen.requests) :
              gen.requests[j].num_start =
                  IF j = 1 THEN gen.offset + 1
                  ELSE gen.pages[j - 1].firstResultPosition + gen.pages[j - 1].totalResultsReturned - 1
        /\ \A j \in 1..(Len(gen.pages) - 1) :
              gen.pages[j].firstResultPosition + gen.pages[j].totalResultsReturned - 1
                  < gen.pages[j].totalResultsAvailable
        /\ gen.pc = "done" =>
              /\ Len(gen.requests) = Len(gen.pages)
              /\ gen.pages[Len(gen.pages)].firstResultPosition
                    + gen.pages[Len(gen.pages)].totalResultsReturned - 1
                  >= gen.pages[Len(gen.pages)].totalResultsAvailable
        /\ gen.pc = "request" /\ Len(gen.pages) > 0 =>
              gen.pages[Len(gen.pages)].firstResultPosition
                    + gen.pages[Len(gen.pages)].totalResultsReturned - 1
                  < gen.pages[Len(gen.pages)].totalResultsAvailable

\* Four results, two a page: requests at 1, 2 and 3, then the end.
C30_Witness ==
    /\ Searching /\ gen.kind = "xfind" /\ gen.pc = "done"
    /\ gen.offset = 0 /\ gen.size = 2 /\ gen.t = 4
    /\ Len(gen.requests) = 3
    /\ gen.requests[1].num_start = 1 /\ gen.requests[2].num_start = 2
    /\ gen.requests[3].num_start = 3

\* Results from offset 1: the first request starts at 2.
C30_WitnessOffset ==
    /\ Searching /\ gen.kind = "xfind" /\ gen.pc = "done"
    /\ gen.offset = 1 /\ Len(gen.requests) = 2
    /\ gen.requests[1].num_start = 2 /\ gen.requests[2].num_start = 3

\* The answer of a HOST that accepts an upload: status 200 and an ok
\* envelope.
Accepted == [kind |-> "ok", xml |-> CHOOSE t \in Trees : TRUE]

\* C22 as claimed: an upload the HOST would accept sends one docs.upload
\* request with the file's content and base name as its file field, and
\* returns a Document of the uploading user made from the response.
C22_UploadReturnsDocument ==
    [][\A u \in Users, path \in Paths :
          Upload(u, path, Accepted) =>
              /\ op'.raised = ""
              /\ op'.ret = Obj("new")
              /\ op'.xml = Accepted.xml
              /\ Len(reqs') = 1
              /\ reqs'[1].method = "docs.upload"
              /\ "file" \in DOMAIN reqs'[1].fields
              /\ reqs'[1].fields["file"] = FileTuple("content", Basename(path))]_vars

\* C23 as claimed: a replace or replace_from_url that succeeded sent rev_id
\* = the document's doc_id through its owner, merged the loaded attributes
\* of the response into the document's, and left the document's id as it
\* was.
C23_ReplaceKeepsIdentity ==
    \A d \in Docs :
        (op.name \in {"replace", "replace_from_url"} /\ op.ent = d /\ op.raised = "") =>
            /\ Len(reqs) = 1
            /\ GetAttrIn(pre.core, d, "doc_id").val # None =>
                  /\ "rev_id" \in DOMAIN reqs[1].fields
                  /\ reqs[1].fields["rev_id"] = Sent(GetAttrIn(pre.core, d, "doc_id").val)
            /\ attributes[d] = DictUpdate(PreA(d), InitAttributes(op.xml))
            /\ GetId(d) = GetIdIn(pre.core, d)

\* update has been called: its arguments, and the owners as it found them.
Updated == call.pc = "update"
OwnerBefore(d) == pre.core.owner[d]
AllDocuments == \A i \in 1..Len(call.docs) : IsDocument(call.docs[i])
SameIdentity(a, b) == PyEq(GetIdIn(pre.core, a).val, GetIdIn(pre.core, b).val)

\* C24: update raises ValueError when an element of docs is not a Document
\* or when two documents have owners with different ids; an update that
\* raised ValueError sent nothing and changed no object; and an update of
\* no documents sends nothing, raises nothing and changes nothing.
C24_UpdateValidates ==
    Updated =>
        /\ (\E i \in 1..Len(call.docs) : ~IsDocument(call.docs[i])) => op.raised = "ValueError"
        /\ (AllDocuments /\ \E i, j \in 1..Len(call.docs) :
                ~SameIdentity(OwnerBefore(call.docs[i]), OwnerBefore(call.docs[j])))
              => op.raised = "ValueError"
        /\ op.raised = "ValueError" => (reqs = << >> /\ Core = pre.core)
        /\ call.docs = << >> => (op.raised = "" /\ reqs = << >> /\ Core = pre.core)

\* Two documents of u1 and api_user, one with a title set: ValueError, and
\* the title is still set.
C24_Witness ==
    /\ Updated /\ op.raised = "ValueError" /\ call.docs = << "d1", "d2" >>
    /\ OwnerBefore("d1") = "u1" /\ OwnerBefore("d2") = "api_user"
    /\ "title" \in DOMAIN call.fields
    /\ "title" \in DOMAIN set_attributes["d1"] /\ set_attributes["d1"]["title"] = I("7")

\* A Document and a User: ValueError.
C24_WitnessNotDocument ==
    /\ Updated /\ op.raised = "ValueError" /\ call.docs = << "d1", "u1" >>

\* No documents, and fields: nothing happens.
C24_WitnessEmpty ==
    /\ Updated /\ op.raised = "" /\ call.docs = << >> /\ "title" \in DOMAIN call.fields

\* C25 as claimed: update of Documents raises ValueError exactly when two
\* of their owners have different ids; owners that are distinct objects
\* with equal ids, two users without user_id among them, are one owner.
C25_OwnersComparedById ==
    (Updated /\ AllDocuments) =>
        (op.raised = "ValueError" <=>
            \E i, j \in 1..Len(call.docs) :
                ~SameIdentity(OwnerBefore(call.docs[i]), OwnerBefore(call.docs[j])))

\* C26 as claimed: an update of one or more documents that succeeded sent
\* exactly one docs.changeSettings request through their owner, with doc_ids
\* the ids joined by commas and with every field (a value None is not sent,
\* as in every request); afterwards every field reads as its value on every
\* document; an update whose request failed changed no object.
C26_UpdateSendsAndSets ==
    /\ (Updated /\ op.raised = "" /\ call.docs # << >>) =>
        /\ Len(reqs) = 1
        /\ reqs[1].method = "docs.changeSettings"
        /\ reqs[1] = UserSendRequest(OwnerBefore(call.docs[1]), "docs.changeSettings",
                                     reqs[1].fields, Accepted).req
        /\ reqs[1].fields["doc_ids"] = JoinIds(pre.core, call.docs).val
        /\ \A k \in DOMAIN call.fields :
              IF call.fields[k] = None THEN k \notin DOMAIN reqs[1].fields
              ELSE k \in DOMAIN reqs[1].fields /\ reqs[1].fields[k] = Sent(call.fields[k])
        /\ \A d \in DocsOf(call.docs) : \A k \in DOMAIN call.fields :
              GetAttr(d, k) = Ok(call.fields[k])
    /\ (Updated /\ op.raised \in Errors) => Core = pre.core

\* Whether the access flag of d was known before the last operation, and
\* whether it is known, and private, now.
AccessKnownBefore(d) == LookupIn(pre.core, d, "access").raised = ""
AccessPrivate(d) ==
    /\ LookupIn(Core, d, "access").raised = ""
    /\ LookupIn(Core, d, "access").val = S("private")

\* C27: get_scribd_url sends at most one request, a docs.getSettings, and
\* only when access was neither set nor loaded; a reload that failed with
\* an error of the library is swallowed: the URL is returned without
\* secret_password and the objects are as they were; and a URL that is
\* returned ends with ?secret_password= and the password exactly when
\* access is known by then and is 'private'.
C27_UrlReloadsOnce ==
    \A d \in Docs : (op.name = "get_scribd_url" /\ op.ent = d) =>
        /\ Len(reqs) <= 1
        /\ Len(reqs) = 1 => (reqs[1].method = "docs.getSettings" /\ ~AccessKnownBefore(d))
        /\ AccessKnownBefore(d) => (op.arg = "" /\ reqs = << >> /\ Core = pre.core)
        /\ op.arg \in Errors =>
              /\ op.raised = ""
              /\ Core = pre.core
              /\ op.ret = S(ScribdUrl(LookupIn(Core, d, "doc_id").val, TitlePart(Core, d)))
        /\ op.raised = "" =>
              op.ret = S(ScribdUrl(LookupIn(Core, d, "doc_id").val,
                                   IF AccessPrivate(d)
                                   THEN TitlePart(pre.core, d) \o "?secret_password="
                                            \o LookupIn(Core, d, "secret_password").val.s
                                   ELSE TitlePart(pre.core, d)))

\* A reload that found the document private: the URL has the password.
C27_Witness ==
    /\ op.name = "get_scribd_url" /\ op.arg = "loaded" /\ op.raised = "" /\ Len(reqs) = 1
    /\ ~AccessKnownBefore("d1") /\ AccessPrivate("d1")
    /\ op.ret = S("http://www.scribd.com/doc/a/a-b?secret_password=s")

\* A reload that failed: the URL has no password.
C27_WitnessSwallowed ==
    /\ op.name = "get_scribd_url" /\ op.arg = "ResponseError" /\ op.raised = "" /\ Len(reqs) = 1
    /\ op.ret = S("http://www.scribd.com/doc/a/a-b")

\* A private document whose access was known: no request.
C27_WitnessKnown ==
    /\ op.name = "get_scribd_url" /\ op.arg = "" /\ op.raised = "" /\ reqs = << >>
    /\ AccessKnownBefore("d1") /\ AccessPrivate("d1")
    /\ op.ret = S("http://www.scribd.com/doc/a/?secret_password=s")

\* The fields of a request but those that name the user.
Anonymous(fields) == DictPop(DictPop(fields, "session_key"), "my_user_id")

\* C28: get_autologin_url of a VirtualUser raises NotImplementedError, sends
\* nothing and changes nothing, whatever the HOST would answer; that of a
\* User sends one user.getAutoSigninUrl request with next_url; and get and
\* upload of a VirtualUser send what those of a User send, the fields that
\* name the user apart, and end as they do.
C28_VirtualUserAutologin ==
    /\ (op.name = "get_autologin_url" /\ Kind(op.ent) = "VirtualUser") =>
          (op.raised = "NotImplementedError" /\ reqs = << >> /\ Core = pre.core)
    /\ (op.name = "get_autologin_url" /\ Kind(op.ent) = "User") =>
          /\ Len(reqs) = 1
          /\ reqs[1].method = "user.getAutoSigninUrl"
          /\ op.raised # "NotImplementedError"
          /\ "next_url" \in DOMAIN reqs[1].fields
          /\ op.raised = "" => reqs[1].fields["next_url"] = S(op.arg)
    /\ op.name = "get" =>
          /\ Len(reqs) = 1
          /\ Anonymous(reqs[1].fields)
                = SendRequest("docs.getSettings", DictSet(EmptyDict, "doc_id", S("a")), Accepted).req.fields
          /\ (op.raised = "" => op.ret = Obj("new"))
          /\ op.raised \in Errors \cup {""}
    /\ op.name = "upload" =>
          /\ Len(reqs) = 1
          /\ Anonymous(reqs[1].fields)
                = Anonymous(UploadCall("u1", CHOOSE path \in Paths : TRUE, EmptyDict, Accepted).req.fields)
          /\ op.raised = "NotReadyError"

\* The virtual user asked for its autologin URL.
C28_Witness ==
    /\ op.name = "get_autologin_url" /\ op.ent = "v1"
    /\ op.raised = "NotImplementedError" /\ reqs = << >>

\* The user that logged in got its autologin URL.
C28_WitnessUser ==
    /\ op.name = "get_autologin_url" /\ op.ent = "u1" /\ op.raised = ""
    /\ op.ret = S("http://host/in") /\ reqs[1].fields["next_url"] = S("/docs")

\* The virtual user got a document.
C28_WitnessGet ==
    /\ op.name = "get" /\ op.ent = "v1" /\ op.raised = "" /\ op.ret = Obj("new")
    /\ reqs[1].fields["my_user_id"] = S("v1")

\* The number of results of page j of the generator, and of its first j
\* pages together.
PageLen(j) == IF IsXall THEN gen.pages[j] ELSE gen.pages[j].totalResultsReturned
RECURSIVE ItemsOfPages(_)
ItemsOfPages(j) == IF j = 0 THEN 0 ELSE ItemsOfPages(j - 1) + PageLen(j)

\* C29: a generator of xall or xfind has sent nothing before the first
\* next(); it sends a request only inside a next() that asks for an item
\* beyond the results of all pages so far; and when the consumer stops
\* after k items the requests are those of the pages that hold the first
\* k items, none more, and nothing can happen any more.
C29_GeneratorsLazy ==
    (call.pc = "consumer" /\ gen.pc # "none") =>
        /\ call.asked = 0 => gen.requests = << >>
        /\ Len(gen.requests) >= 1 => call.asked > ItemsOfPages(Len(gen.requests) - 1)
        /\ Len(gen.yielded) <= call.asked
        /\ call.stopped =>
              /\ call.asked = 0 => gen.requests = << >>
              /\ (call.asked > 0 /\ gen.pc \notin {"done", "raised"}) =>
                    /\ Len(gen.yielded) = call.asked
                    /\ Len(gen.pages) = Len(gen.requests)
                    /\ ItemsOfPages(Len(gen.requests) - 1) < call.asked
                    /\ call.asked <= ItemsOfPages(Len(gen.requests))
              /\ ~ENABLED NextLazy

\* The consumer of xall over five documents, two a page, stopped after the
\* second item: one request.
C29_Witness ==
    /\ call.pc = "consumer" /\ call.stopped /\ call.asked = 2
    /\ IsXall /\ gen.n = 5 /\ gen.limit = 2
    /\ gen.yielded = <<1, 2>> /\ Len(gen.requests) = 1

\* The consumer of xfind asked for a third item, two a page: the second
\* request.
C29_WitnessXfind ==
    /\ call.pc = "consumer" /\ call.asked = 3 /\ gen.pc # "none" /\ ~IsXall
    /\ gen.size = 2 /\ gen.t = 4 /\ Len(gen.yielded) = 3 /\ Len(gen.requests) = 2

\* A generator that was never asked for an item.
C29_WitnessUnused ==
    /\ call.pc = "consumer" /\ call.stopped /\ call.asked = 0
    /\ gen.pc = "request" /\ gen.requests = << >>

\* C31: every request of a call has the fields method, api_key and api_sig,
\* the method and the key being those of the call; it has no field the
\* caller passed as None and every other field the caller passed; and every
\* attempt of the call sends the fields, the signature among them, that the
\* first one sent.
C31_RequestFields ==
    InCall =>
        \A i \in 1..Attempts :
            /\ {"method", "api_key", "api_sig"} \subseteq DOMAIN call.log[i].req
            /\ call.log[i].req["method"] = S(call.method)
            /\ call.log[i].req["api_key"] = S(call.api_key)
            /\ \A k \in DOMAIN call.supplied :
                  IF call.supplied[k] = None THEN k \notin DOMAIN call.log[i].req
                  ELSE k \in DOMAIN call.log[i].req
            /\ DOMAIN call.log[i].req = DOMAIN call.log[1].req
            /\ call.log[i].req = call.log[1].req
            /\ call.log[i].req["api_sig"] = call.log[1].req["api_sig"]

\* Three attempts of a call that was passed a title of None: none of them
\* sent a title.
C31_Witness ==
    /\ InCall /\ Attempts = 3
    /\ "title" \in DOMAIN call.supplied /\ call.supplied["title"] = None
    /\ "doc_id" \in DOMAIN call.log[3].req
    /\ "title" \notin DOMAIN call.log[3].req
    /\ call.log[3].req["api_sig"] = call.log[1].req["api_sig"]

\* The names of the subelements of xml whose text is None.
NullNames(xml) == {k \in TagNames(xml) : LastEl(xml, k).null}

\* C32 as claimed: a load passes over a subelement whose text is None: its
\* name is loaded after the load exactly when it was before, with the value
\* it had, a value set externally under that name stays set, and a name
\* that was unknown before still raises AttributeError.
C32_NullChildSkipped ==
    \A d \in Docs : (Succeeded("load") /\ op.ent = d) =>
        \A k \in NullNames(op.xml) :
            /\ k \in DOMAIN attributes[d] <=> k \in DOMAIN PreA(d)
            /\ k \in DOMAIN PreA(d) => attributes[d][k] = PreA(d)[k]
            /\ k \in DOMAIN PreP(d) =>
                  (k \in DOMAIN set_attributes[d] /\ set_attributes[d][k] = PreP(d)[k])
            /\ GetAttrIn(pre.core, d, k).raised = "AttributeError" =>
                  GetAttr(d, k).raised = "AttributeError"

\* C32 as the code has it: a load stores every subelement; one whose text
\* is None is loaded with the value None, over any value loaded before, a
\* value set externally under its name is dropped, and the name reads as
\* None afterwards.
C32_NullChildStoredAsNone ==
    \A d \in Docs : (Succeeded("load") /\ op.ent = d) =>
        /\ TagNames(op.xml) \subseteq DOMAIN attributes[d]
        /\ \A k \in NullNames(op.xml) :
              /\ k \in DOMAIN attributes[d] /\ attributes[d][k] = None
              /\ k \notin DOMAIN set_attributes[d]
              /\ GetAttr(d, k) = Ok(None)

\* A load whose title element has no text, the title loaded before and set
\* since: it is None afterwards and no longer set.
C32_Witness ==
    /\ Succeeded("load") /\ "title" \in NullNames(op.xml)
    /\ "title" \in DOMAIN PreA("d1") /\ PreA("d1")["title"] = S("a")
    /\ "title" \in DOMAIN PreP("d1") /\ PreP("d1")["title"] = I("7")
    /\ attributes["d1"]["title"] = None
    /\ "title" \notin DOMAIN set_attributes["d1"]

\* A generator of xfind none of whose requests has failed.
XfindRunning == Searching /\ gen.kind = "xfind" /\ gen.pc # "raised"

\* C33 as claimed: xfind comes to an end: every request starts behind the
\* request before it, so that a list of T results takes no more requests
\* than it has results, and one for the empty page.
C33_XfindAdvances ==
    XfindRunning =>
        \A j \in 2..Len(gen.requests) :
            gen.requests[j].num_start > gen.requests[j - 1].num_start

\* C34 as claimed: an xfind that has ended has yielded every result from
\* its offset on, in order and each once.
C34_XfindYieldsEachOnce ==
    (XfindRunning /\ gen.pc = "done") =>
        /\ \A i, j \in 1..Len(gen.yielded) : gen.yielded[i].doc = gen.yielded[j].doc => i = j
        /\ {gen.yielded[i].doc : i \in 1..Len(gen.yielded)} = (gen.offset + 1)..gen.t

\* C35 as claimed: after an update that succeeded, a document of docs that
\* had nothing set externally before has nothing set externally, so that a
\* save() right after it sends nothing and returns False.
C35_UpdateLeavesNothingPending ==
    (Updated /\ op.raised = "") =>
        \A d \in DocsOf(call.docs) :
            PreP(d) = EmptyDict => set_attributes[d] = EmptyDict

\* The operations of a Document that C36 calls read-style.
ReadStyle == {"get_scribd_url", "get_conversion_status", "get_download_url", "delete"}

\* C36 as claimed: get_scribd_url, get_conversion_status, get_download_url
\* and delete leave _set_attributes of every object as it was, so that what
\* was set before them is still set, with its value, for the next save().
C36_ReadsKeepPending ==
    op.name \in ReadStyle => set_attributes = pre.core.set_attributes

\* What is left of what was set on e once the names of xml are popped.
PendingWithout(e, xml) == [k \in DOMAIN PreP(e) \ TagNames(xml) |-> PreP(e)[k]]

\* C36 as the code has it: get_conversion_status, get_download_url and
\* delete leave _set_attributes of every object as it was; get_scribd_url
\* does so unless it reloads the document, and after a reload that was
\* answered the document has lost exactly the entries named by a subelement
\* of the answer, whatever get_scribd_url does after it.
C36_ReadsDropOnlyReloaded ==
    op.name \in ReadStyle =>
        /\ \A e \in DOMAIN set_attributes \ {op.ent} : set_attributes[e] = PreP(e)
        /\ set_attributes[op.ent] =
               IF op.name = "get_scribd_url" /\ op.arg = "loaded"
               THEN PendingWithout(op.ent, op.xml)
               ELSE PreP(op.ent)

\* get_scribd_url reloaded a document on which secret_password was set, and
\* the entry is gone.
C36_Witness ==
    /\ op.name = "get_scribd_url" /\ op.arg = "loaded" /\ op.raised = ""
    /\ "secret_password" \in DOMAIN PreP("d1")
    /\ "secret_password" \notin DOMAIN set_attributes["d1"]

\* get_download_url answered on a document with something set.
C36_WitnessKept ==
    /\ op.name = "get_download_url" /\ op.raised = ""
    /\ PreP("d1") # EmptyDict
    /\ set_attributes["d1"] = PreP("d1")

\* The exceptions send_request documents.
Documented == {"NotReadyError", "ValueError", "MalformedResponseError", "ResponseError"}

\* C37 as claimed: a call of send_request ends with the envelope returned,
\* its root rsp and its stat not fail, or with one of the documented
\* exceptions, whatever well-formed document with the root rsp the host
\* answers with.
C37_OutcomesDocumented ==
    call.pc = "done" =>
        \/ call.raised = "" /\ call.ret.parses /\ call.ret.root = "rsp" /\ call.ret.stat # "fail"
        \/ call.raised \in Documented

====
